---- MODULE Spec2Model ----
(***************************************************************************)
(* The wait array of storage/innobase/sync/sync0arr.cc: the cells, the     *)
(* per-instance OS mutex, the events embedded in the waited-on objects,    *)
(* the sweep that wakes missed waiters and the debug deadlock detection.   *)
(*                                                                         *)
(* Every function that runs between sync_array_enter and sync_array_exit   *)
(* is one action: the OS mutex makes the section atomic with respect to    *)
(* every other section of the same instance.  What the code does outside   *)
(* the mutex (the tail of sync_array_reserve_cell, os_event_wait_low) is   *)
(* a step of its own.  arr->res_count, sg_count, cell->file/line and the   *)
(* old_wait_* pointers are written but read only by the diagnostics        *)
(* printers; they are not part of the state here.                          *)
(***************************************************************************)
EXTENDS Integers, Sequences, FiniteSets, TLC

\* ------------------------------------------------------------------ bounds
\* Number of wait-array instances (srv_sync_array_size, 32 by default).
srv_sync_array_size == 2
\* The argument of sync_array_init, also the number of threads of the model.
n_threads == 3
\* The control blocks of the buffer pool, the pages of the tablespace, the
\* user threads of the pool, and the largest log sequence number.
buf_pool_n_blocks == 3
n_pages == 3
n_pool_threads == 2
\* The scratch slots (buf_tmp_buffer_t) of the pool.
n_tmp_slots == 2
\* The largest arguments of a call of sync_array_init: the number of threads
\* and the value of srv_sync_array_size at the call.
InitMaxThreads == 12
InitMaxSize == 9

\* The key pairs and the nonce values of the authentication model.
n_keys == 2
n_nonces == 2

\* common.h and the server part of the ed25519 plugin.
NONCE_BYTES == 32
CRYPTO_BYTES == 64
PASSWORD_LEN_BUF == 44
PASSWORD_LEN == 43
MaxLsn == 200
\* A thread starts no new reservation on an object whose event has reached
\* this generation (caps os_event signal_count, which only grows).
MaxSignalCount == 2

\* The clock advances by TimeStep seconds at a time, up to MaxNow.
TimeStep == 240
MaxNow == 720

\* --------------------------------------------------------------- constants
sync_array_size == srv_sync_array_size
\* sync_array_init: n_slots = 1 + (n_threads - 1) / sync_array_size
n_slots == 1 + ((n_threads - 1) \div sync_array_size)

Arrs == 0 .. (sync_array_size - 1)
Cells == 0 .. (n_slots - 1)
Threads == 1 .. n_threads
PoolThreads == 1 .. n_pool_threads
TmpSlots == 1 .. n_tmp_slots
\* The LSN of the first modification and the amount by which it grows.
LsnFirst == 100
LsnStep == 50

\* memset(arr->array, 0x0, sz): the thread id of a cell never reserved
NoThread == 0
\* OS_THREAD_ID_UNDEFINED / ULINT_UNDEFINED: "no thread"
ULINT_UNDEFINED == -1
NULL == "NULL"

SYNC_MUTEX == "SYNC_MUTEX"
RW_LOCK_SHARED == "RW_LOCK_SHARED"
RW_LOCK_EX == "RW_LOCK_EX"
RW_LOCK_WAIT_EX == "RW_LOCK_WAIT_EX"
RequestTypes == {SYNC_MUTEX, RW_LOCK_SHARED, RW_LOCK_EX, RW_LOCK_WAIT_EX}

\* The waited-on objects: one mutex and two rw-locks (the latches of two pages).
Mutexes == {"M"}
RwLocks == {"P1", "P2"}
Objects == Mutexes \cup RwLocks

\* The lock_word of an unlocked rw-lock (X_LOCK_DECR, the spec's MAX_READERS),
\* scaled down: more than the number of threads that can hold a read lock.
X_LOCK_DECR == n_threads + 1

\* The events embedded in the objects: ib_mutex_t::event, rw_lock_t::event and
\* rw_lock_t::wait_ex_event.
Events == {<<m, "event">> : m \in Mutexes}
          \cup {<<l, "event">> : l \in RwLocks}
          \cup {<<l, "wait_ex_event">> : l \in RwLocks}

\* sync_cell_t after memset(0)
FreeCell == [wait_object |-> NULL, request_type |-> "NONE", thread |-> NoThread,
             waiting |-> FALSE, signal_count |-> 0, reservation_time |-> 0]

VARIABLES
    cells,        \* cells[a][i]: sync_cell_t of instance a
    n_reserved,   \* n_reserved[a]: arr->n_reserved
    os_mutex,     \* os_mutex[a]: the thread inside arr->os_mutex, or NoThread
    count,        \* the static counter of sync_array_get, modulo sync_array_size
    events,       \* events[e]: is_set and signal_count of an os_event
    lock_word,    \* lock_word[o] of a mutex or rw-lock
    thread_id,    \* thread_id[m]: ib_mutex_t::thread_id
    debug_list,   \* debug_list[l]: rw_lock_t::debug_list (UNIV_SYNC_DEBUG)
    pc,           \* pc[t]: where thread t is
    t_arr,        \* t_arr[t]: the instance sync_array_get gave to t
    t_idx,        \* t_idx[t]: *index of t's reservation
    sw_arr,       \* the loop variable of sync_arr_wake_threads_if_sema_free
    err,          \* the assertion that failed (ut_a, ut_ad, ut_error), or "none"
    now,          \* time(NULL), in seconds since the start
    srv_fatal_semaphore_wait_threshold,
    long_waits,   \* the long-wait monitor: its loop variable and its results
    waiters,      \* ib_mutex_t::waiters of the mutex M
    mpc,          \* mpc[t]: where thread t is in mutex_enter / mutex_exit of M
    rpc,          \* rpc[t]: where thread t is in the lock functions of rw-lock P1
    blocks,       \* blocks[d]: the control block (descriptor) d of the pool
    free,         \* buf_pool->free, head first
    flush_list,   \* buf_pool->flush_list, head first
    page_hash,    \* page_hash[p]: the block of page p, or 0
    pool_mutex,   \* the holder of buf_pool->mutex, or NoThread
    flush_list_mutex, \* the holder of buf_pool->flush_list_mutex
    lsn,          \* the newest log sequence number
    flush_batch,  \* the running flush batch: its pointer, the LSNs it wrote
    io_pc,        \* the block whose write completion is under way, or 0
    bpc,          \* bpc[t]: the pool operation thread t is in
    mtr,          \* mtr[t]: the <<block, latch>> of the pages thread t got and
                  \* holds, the <<block, MEMORY_OBJECT>> it allocated
    reserved,     \* reserved[s]: buf_tmp_buffer_t::reserved of scratch slot s
    slot_ret,     \* slot_ret[t][s]: what t's last acquire() on slot s
                  \* returned, "none" before it and after t's release()
    sync_wait_array, \* NoWaitArray, or what sync_array_init created: the
                  \* instances (array), with the arguments of the call
    walk,         \* the diagnostic walk along the writer threads that is
                  \* under way: its function, instance, cell index i,
                  \* reserver and loop, or NoWalk
    handshake     \* an ed25519 authentication: the account's auth string,
                  \* the client's password, where auth() and do_auth() are,
                  \* what they returned, the packets on the way, and the
                  \* vio calls each side has made

\* The variables outside the wait array and the latches.
monitor_vars == <<now, srv_fatal_semaphore_wait_threshold, long_waits>>
mutex_vars == <<waiters, mpc>>
rw_vars == <<rpc>>
\* The variables the long-wait monitor leaves alone, and those the mutex does.
pool_vars == <<blocks, free, flush_list, page_hash, pool_mutex,
               flush_list_mutex, lsn, flush_batch, io_pc, bpc, mtr>>
tmp_vars == <<reserved, slot_ret>>
create_vars == <<sync_wait_array>>
print_vars == <<walk>>
auth_vars == <<handshake>>
monitor_others == <<mutex_vars, rw_vars, pool_vars, tmp_vars, create_vars, print_vars, auth_vars>>
mutex_others == <<monitor_vars, rw_vars, pool_vars, tmp_vars, create_vars, print_vars, auth_vars>>
rw_others == <<monitor_vars, mutex_vars, pool_vars, tmp_vars, create_vars, print_vars, auth_vars>>
ext_vars == <<monitor_vars, mutex_vars, rw_vars, pool_vars, tmp_vars, create_vars, print_vars, auth_vars>>

vars == <<cells, n_reserved, os_mutex, count, events, lock_word,
          thread_id, debug_list, pc, t_arr, t_idx, sw_arr, err, ext_vars>>



\* ------------------------------------------------------------ os events
\* os_event_create: signal_count starts at 1, the event is not set.
os_event_create == [is_set |-> FALSE, signal_count |-> 1]

\* os_event_reset: clears is_set and returns the current generation.
os_event_reset(ev) == [ev EXCEPT !.is_set = FALSE]

\* os_event_set: a set of an event that is not set starts a new generation.
os_event_set(ev) ==
    IF ev.is_set THEN ev
    ELSE [is_set |-> TRUE, signal_count |-> ev.signal_count + 1]

\* os_event_wait_low(event, reset_sig_count) returns when the event is set or
\* has been set since the generation reset_sig_count was observed.
os_event_wait_done(ev, reset_sig_count) ==
    ev.is_set \/ ev.signal_count # reset_sig_count

\* ------------------------------------------------------------- helpers
\* sync_cell_get_event: the event the owner of the cell waits for.
sync_cell_get_event(cell) ==
    IF cell.request_type = SYNC_MUTEX THEN <<cell.wait_object, "event">>
    ELSE IF cell.request_type = RW_LOCK_WAIT_EX
         THEN <<cell.wait_object, "wait_ex_event">>
         ELSE <<cell.wait_object, "event">>

\* Mutant of reserve_cell_find: when no cell is free the last cell examined
\* is handed out.
reserve_cell_find_or_last(a) ==
    LET free_cells == {i \in Cells : cells[a][i].wait_object = NULL}
    IN  IF free_cells = {} THEN n_slots - 1
        ELSE CHOOSE i \in free_cells : \A j \in free_cells : i <= j

\* Mutant of reserve_cell_find: the loop starts at cell 1.
reserve_cell_find_from_1(a) ==
    LET free_cells == {i \in Cells : i >= 1 /\ cells[a][i].wait_object = NULL}
    IN  IF free_cells = {} THEN -1
        ELSE CHOOSE i \in free_cells : \A j \in free_cells : i <= j

\* The loop of sync_array_reserve_cell: the first cell with wait_object == NULL,
\* or -1 when the loop ends without one.
reserve_cell_find(a) ==
    LET free_cells == {i \in Cells : cells[a][i].wait_object = NULL}
    IN  IF free_cells = {} THEN -1
        ELSE CHOOSE i \in free_cells : \A j \in free_cells : i <= j

\* Mutant of reserve_cell_fill: request_type is not stored.
reserve_cell_fill_no_type(cell, object, type) ==
    [cell EXCEPT !.waiting = FALSE, !.wait_object = object]

\* What sync_array_reserve_cell stores in the cell while it holds the mutex.
reserve_cell_fill(cell, object, type) ==
    [cell EXCEPT !.waiting = FALSE, !.wait_object = object,
                 !.request_type = type]

\* Mutant of free_cell_clear: wait_object is not cleared.
free_cell_clear_keep_object(cell) ==
    [cell EXCEPT !.waiting = FALSE, !.signal_count = 0]

\* Mutant of free_cell_clear: signal_count is not cleared.
free_cell_clear_keep_signal_count(cell) ==
    [cell EXCEPT !.waiting = FALSE, !.wait_object = NULL]

\* Mutant of free_cell_clear: waiting is not cleared.
free_cell_clear_keep_waiting(cell) ==
    [cell EXCEPT !.wait_object = NULL, !.signal_count = 0]

\* What sync_array_free_cell stores in the cell.
free_cell_clear(cell) ==
    [cell EXCEPT !.waiting = FALSE, !.wait_object = NULL, !.signal_count = 0]

\* sync_array_find_thread: the first reserved cell that carries the thread id,
\* or -1 (NULL).
sync_array_find_thread(a, thread) ==
    LET hit == {i \in Cells : /\ cells[a][i].wait_object # NULL
                              /\ cells[a][i].thread = thread}
    IN  IF hit = {} THEN -1
        ELSE CHOOSE i \in hit : \A j \in hit : i <= j

\* The requests a thread can make: a mutex is waited for with SYNC_MUTEX, an
\* rw-lock with one of the three rw-lock request types.
Requests == {[object |-> m, type |-> SYNC_MUTEX] : m \in Mutexes}
            \cup {[object |-> l, type |-> ty] :
                  l \in RwLocks, ty \in {RW_LOCK_SHARED, RW_LOCK_EX, RW_LOCK_WAIT_EX}}

\* ------------------------------------------------- deadlock detection
\* The recursion depth that ut_ad(depth < 100) of sync_array_detect_deadlock allows.
MaxDepth == 100

RECURSIVE sync_array_detect_deadlock(_, _, _, _)
RECURSIVE sync_array_deadlock_step(_, _, _, _, _)
RECURSIVE detect_debug_list(_, _, _, _, _)

\* Mutant of sync_array_deadlock_step: the pass value is not looked at.
sync_array_deadlock_step_any_pass(a, start, thread, pass, depth) ==
    LET new_cell == sync_array_find_thread(a, thread)
    IN  IF new_cell = start THEN "deadlock"
        ELSE IF new_cell # -1
             THEN sync_array_detect_deadlock(a, start, new_cell, depth + 1)
             ELSE "no"

\* sync_array_deadlock_step: "deadlock" when the thread's cell is the start
\* cell, else the search goes on from the thread's cell, if it has one.
sync_array_deadlock_step(a, start, thread, pass, depth) ==
    IF pass # 0 THEN "no"
    ELSE \* new_cell is looked up once
         CHOOSE out \in
             {IF new_cell = start THEN "deadlock"
              ELSE IF new_cell # -1
                   THEN sync_array_detect_deadlock(a, start, new_cell, depth + 1)
                   ELSE "no" :
                 new_cell \in {sync_array_find_thread(a, thread)}} : TRUE

\* Mutant of request_blocked_by: a (wait) x-lock request follows the holders
\* of other threads only.
request_blocked_by_other_threads(cell, debug) ==
    IF cell.request_type = RW_LOCK_SHARED
    THEN debug.lock_type \in {RW_LOCK_EX, RW_LOCK_WAIT_EX}
    ELSE debug.thread_id # cell.thread

\* Mutant of request_blocked_by: an x-lock request follows writers only.
request_blocked_by_writers_only(cell, debug) ==
    IF cell.request_type = RW_LOCK_SHARED
    THEN debug.lock_type \in {RW_LOCK_EX, RW_LOCK_WAIT_EX}
    ELSE \/ debug.lock_type = RW_LOCK_EX /\ debug.thread_id # cell.thread
         \/ debug.lock_type = RW_LOCK_WAIT_EX /\ debug.thread_id # cell.thread

\* The conditions of the two debug_list loops of sync_array_detect_deadlock:
\* can the holder that the entry debug describes block the cell's request?
\* An s-lock request: by a (wait) x-lock of any thread.  A (wait) x-lock
\* request: by a (wait) x-lock of another thread, or by any s-lock.
request_blocked_by(cell, debug) ==
    IF cell.request_type = RW_LOCK_SHARED
    THEN debug.lock_type \in {RW_LOCK_EX, RW_LOCK_WAIT_EX}
    ELSE \/ debug.lock_type = RW_LOCK_EX /\ debug.thread_id # cell.thread
         \/ debug.lock_type = RW_LOCK_WAIT_EX /\ debug.thread_id # cell.thread
         \/ debug.lock_type = RW_LOCK_SHARED

\* The for loops over lock->debug_list of sync_array_detect_deadlock: the
\* first entry the request can wait for whose step finds a deadlock ends it.
detect_debug_list(a, start, c, list, depth) ==
    IF list = <<>> THEN "no"
    ELSE LET debug == Head(list)
         IN  IF request_blocked_by(cells[a][c], debug)
             THEN \* ret is computed once; the loop ends unless it is "no"
                  CHOOSE out \in
                      {IF ret # "no" THEN ret
                       ELSE detect_debug_list(a, start, c, Tail(list), depth) :
                          ret \in {sync_array_deadlock_step(
                                       a, start, debug.thread_id,
                                       debug.pass, depth)}} : TRUE
             ELSE detect_debug_list(a, start, c, Tail(list), depth)

\* sync_array_detect_deadlock(arr, start, cell, depth): "deadlock", "no", or
\* "depth" when ut_ad(depth < 100) fails.
sync_array_detect_deadlock(a, start, c, depth) ==
    LET cell == cells[a][c]
    IN  IF depth >= MaxDepth THEN "depth"
        ELSE IF ~cell.waiting THEN "no"
        ELSE IF cell.request_type = SYNC_MUTEX
             THEN IF lock_word[cell.wait_object] # 0
                  THEN sync_array_deadlock_step(a, start,
                            thread_id[cell.wait_object], 0, depth + 1)
                  ELSE "no"
             ELSE detect_debug_list(a, start, c, debug_list[cell.wait_object],
                                    depth + 1)

\* ------------------------------------------------------------ the sweep
\* Mutant of sync_arr_cell_can_wake_up: an X-lock request is also woken when
\* the lock word is 0 (">= 0" for "> 0").
sync_arr_cell_can_wake_up_ge(cell) ==
    IF cell.request_type = SYNC_MUTEX THEN lock_word[cell.wait_object] = 0
    ELSE IF cell.request_type = RW_LOCK_EX THEN lock_word[cell.wait_object] >= 0
    ELSE IF cell.request_type = RW_LOCK_WAIT_EX THEN lock_word[cell.wait_object] = 0
    ELSE IF cell.request_type = RW_LOCK_SHARED THEN lock_word[cell.wait_object] > 0
    ELSE FALSE

\* sync_arr_cell_can_wake_up: the release predicate of the cell's request.
sync_arr_cell_can_wake_up(cell) ==
    IF cell.request_type = SYNC_MUTEX THEN lock_word[cell.wait_object] = 0
    ELSE IF cell.request_type = RW_LOCK_EX THEN lock_word[cell.wait_object] > 0
    ELSE IF cell.request_type = RW_LOCK_WAIT_EX THEN lock_word[cell.wait_object] = 0
    ELSE IF cell.request_type = RW_LOCK_SHARED THEN lock_word[cell.wait_object] > 0
    ELSE FALSE

RECURSIVE wake_scan(_, _, _, _)
\* The loop "for (count = 0; count < arr->n_reserved; ++i)" of
\* sync_array_wake_threads_if_sema_free_low: the cells whose event it sets,
\* and whether sync_array_get_nth_cell was called with i >= n_cells.
wake_scan(a, i, cnt, woken) ==
    IF ~(cnt < n_reserved[a]) THEN [woken |-> woken, overrun |-> FALSE]
    ELSE IF ~(i < n_slots) THEN [woken |-> woken, overrun |-> TRUE]
    ELSE IF cells[a][i].wait_object # NULL
         THEN wake_scan(a, i + 1, cnt + 1,
                        IF sync_arr_cell_can_wake_up(cells[a][i])
                        THEN woken \cup {i} ELSE woken)
         ELSE wake_scan(a, i + 1, cnt, woken)

RECURSIVE print_info_scan(_, _, _, _)
\* The loop "for (i = 0; count < arr->n_reserved; ++i)" of
\* sync_array_print_info_low: the cells it prints, in the order of the
\* calls of sync_array_cell_print, and whether sync_array_get_nth_cell was
\* called with i >= n_cells.
print_info_scan(a, i, cnt, printed) ==
    IF ~(cnt < n_reserved[a]) THEN [printed |-> printed, overrun |-> FALSE]
    ELSE IF ~(i < n_slots) THEN [printed |-> printed, overrun |-> TRUE]
    ELSE IF cells[a][i].wait_object # NULL
         THEN print_info_scan(a, i + 1, cnt + 1, Append(printed, i))
         ELSE print_info_scan(a, i + 1, cnt, printed)

\* sync_array_print_info_low(file, arr), called under the mutex.
sync_array_print_info_low(a) == print_info_scan(a, 0, 0, <<>>)

\* Mutant of wait_event_done: the wait looks at is_set only and ignores the
\* generation stored in the cell.
wait_event_done_is_set_only(cell) ==
    events[sync_cell_get_event(cell)].is_set

\* os_event_wait_low(event, cell->signal_count) of sync_array_wait_event: is
\* the wait on the cell's event over?
wait_event_done(cell) ==
    os_event_wait_done(events[sync_cell_get_event(cell)], cell.signal_count)

\* ------------------------------------------------- the long-wait monitor
\* The warn threshold of sync_array_print_long_waits_low, in seconds.
SYNC_ARRAY_TIMEOUT == 240
\* srv_fatal_semaphore_wait_threshold as the server starts, and the amount by
\* which CHECK TABLE and the like raise it while they run.
SRV_FATAL_SEMAPHORE_WAIT_DEFAULT == 600
SRV_SEMAPHORE_WAIT_EXTENSION == 7200

\* The caller's variables of a call of sync_array_print_long_waits: i is the
\* loop variable (0 between two calls, when fatal is the value returned),
\* waiter and sema the out-parameters, warned the cells of the instance
\* visited last for which "a long semaphore wait" was printed, printed those
\* the second loop printed ("semaphore wait").
NoLongWaits == [i |-> 0, fatal |-> FALSE, noticed |-> FALSE,
                waiter |-> NoThread, sema |-> NULL, warned |-> {},
                printed |-> {}]

MonitorInit ==
    /\ now = 0
    /\ srv_fatal_semaphore_wait_threshold = SRV_FATAL_SEMAPHORE_WAIT_DEFAULT
    /\ long_waits = NoLongWaits

\* mutex_create: nobody waits, every thread is outside the mutex.
MutexInit ==
    /\ waiters = 0
    /\ mpc = [t \in Threads |-> "out"]

\* rw_lock_create: no thread holds or requests the rw-lock.
RwInit == rpc = [t \in Threads |-> "out"]

\* ------------------------------------------------------- the buffer pool
\* One buffer pool instance: the control blocks (descriptors), the free
\* list, the flush list, the page hash, the pool mutex and the flush list
\* mutex.  The hash stripe locks are not variables: a lookup together with
\* the pin it leads to, and an insertion or removal, are single steps.
Blocks == 1 .. buf_pool_n_blocks
Pages == 1 .. n_pages

BUF_BLOCK_NOT_USED == "NOT_USED"
BUF_BLOCK_READY_FOR_USE == "READY_FOR_USE"
BUF_BLOCK_FILE_PAGE == "FILE_PAGE"
BUF_BLOCK_MEMORY == "MEMORY"
BUF_IO_NONE == "NONE"
BUF_IO_READ == "READ"
BUF_IO_WRITE == "WRITE"
RW_NO_LATCH == "RW_NO_LATCH"
RW_S_LATCH == "RW_S_LATCH"
RW_X_LATCH == "RW_X_LATCH"
Latches == {RW_NO_LATCH, RW_S_LATCH, RW_X_LATCH}
\* The mark of a block a thread allocated for a memory object.
MEMORY_OBJECT == "MEMORY_OBJECT"

\* The holder of a latch or mutex taken on behalf of an I/O.
IoHolder == 0 - 1

\* A control block on the free list: no page, no pin, no I/O, clean, its
\* latch (lock_x the exclusive holder, lock_s the shared holders) free.
NotUsedBlock == [state |-> BUF_BLOCK_NOT_USED, page |-> 0, buf_fix_count |-> 0,
                 io_fix |-> BUF_IO_NONE, oldest_modification |-> 0,
                 lock_x |-> NoThread, lock_s |-> {}]

\* What a thread is doing in the pool: op "idle", or the operation it is in
\* with its block, page and latch mode; n_free is the length the free list
\* had when a get that missed was called.
IdleOp == [op |-> "idle", d |-> 0, page |-> 0, latch |-> RW_NO_LATCH,
           n_free |-> 0]

\* No flush batch is running.
NoBatch == [hp |-> 0, written |-> <<>>]

\* buf_pool_init: every block is on the free list.
PoolInit ==
    /\ blocks = [d \in Blocks |-> NotUsedBlock]
    /\ free = [i \in 1 .. buf_pool_n_blocks |-> i]
    /\ flush_list = <<>>
    /\ page_hash = [p \in Pages |-> 0]
    /\ pool_mutex = NoThread
    /\ flush_list_mutex = NoThread
    /\ lsn = 0
    /\ flush_batch = NoBatch
    /\ io_pc = 0
    /\ bpc = [t \in Threads |-> IdleOp]
    /\ mtr = [t \in Threads |-> {}]

\* The scratch slots: none is reserved.
TmpInit ==
    /\ reserved = [s \in TmpSlots |-> 0]
    /\ slot_ret = [t \in Threads |-> [s \in TmpSlots |-> "none"]]

\* sync_wait_array == NULL: no instance, created for no thread.
NoWaitArray == [n_threads |-> 0, sync_array_size |-> 0, array |-> <<>>]

\* Mutant of sync_array_init_n_slots: the quotient plus one.
sync_array_init_n_slots_quotient(n, size) == (n \div size) + 1

\* sync_array_init: n_slots = 1 + (n_threads - 1) / sync_array_size
sync_array_init_n_slots(n, size) == 1 + ((n - 1) \div size)

\* sync_array_create(n_cells): the array and its cells are zeroed by memset,
\* n_cells is stored, the mutex is created.
sync_array_create(n_cells) ==
    [n_cells |-> n_cells,
     n_reserved |-> 0,
     array |-> [i \in 0 .. (n_cells - 1) |-> FreeCell],
     os_mutex |-> NoThread]

\* sync_wait_array after sync_array_init(n) with srv_sync_array_size = size.
sync_array_init_result(n, size) ==
    [n_threads |-> n,
     sync_array_size |-> size,
     array |-> [i \in 0 .. (size - 1) |->
                   sync_array_create(sync_array_init_n_slots(n, size))]]

\* No diagnostic walk is under way.
NoWalk == [fn |-> "none", a |-> 0, i |-> 0, reserver |-> ULINT_UNDEFINED,
           loop |-> 0, pc |-> "none"]

\* No packet.
NoPacket == [len |-> 0, body |-> 0]

\* No connection is being authenticated.
NoHandshake ==
    [auth_string |-> [len |-> 0, pk |-> 0], passwd |-> 0,
     spc |-> "none", sret |-> "none", nonce |-> 0, slog |-> <<>>,
     cpc |-> "none", cret |-> "none", clog |-> <<>>,
     to_client |-> NoPacket, to_server |-> NoPacket]

\* The wait arrays of the running server: sync_array_init(n_threads); nothing
\* is being printed, nobody is connecting.
CreateInit ==
    /\ sync_wait_array = sync_array_init_result(n_threads, srv_sync_array_size)
    /\ walk = NoWalk
    /\ handshake = NoHandshake

ExtInit ==
    /\ MonitorInit
    /\ MutexInit
    /\ RwInit
    /\ PoolInit
    /\ TmpInit
    /\ CreateInit

\* Mutant of long_wait_cells: every reserved cell is looked at.
long_wait_cells_reserved(a) ==
    {i \in Cells : cells[a][i].wait_object # NULL}

\* The cells the loops of sync_array_print_long_waits_low do not skip.
long_wait_cells(a) ==
    {i \in Cells : cells[a][i].wait_object # NULL /\ cells[a][i].waiting}

\* diff = difftime(time(NULL), cell->reservation_time)
long_wait_diff(cell) == now - cell.reservation_time

RECURSIVE long_wait_longest(_, _, _)
\* The first loop of sync_array_print_long_waits_low from cell i on, as far
\* as longest_diff, *waiter and *sema go: best is [diff, waiter, sema].
long_wait_longest(a, i, best) ==
    IF i >= n_slots THEN best
    ELSE IF i \in long_wait_cells(a) /\ long_wait_diff(cells[a][i]) > best.diff
         THEN long_wait_longest(a, i + 1,
                  [diff |-> long_wait_diff(cells[a][i]),
                   waiter |-> cells[a][i].thread,
                   sema |-> cells[a][i].wait_object])
         ELSE long_wait_longest(a, i + 1, best)

\* sync_array_print_long_waits_low(arr, waiter, sema, noticed): the value
\* returned (fatal) and the out-parameters.
sync_array_print_long_waits_low(a, lw) ==
    IF srv_fatal_semaphore_wait_threshold > SRV_SEMAPHORE_WAIT_EXTENSION
    THEN [fatal |-> FALSE, noticed |-> lw.noticed, waiter |-> lw.waiter,
          sema |-> lw.sema, warned |-> {}, printed |-> {}]
    ELSE LET warned == {i \in long_wait_cells(a) :
                            long_wait_diff(cells[a][i]) > SYNC_ARRAY_TIMEOUT}
             longest == long_wait_longest(a, 0,
                            [diff |-> 0, waiter |-> lw.waiter, sema |-> lw.sema])
         IN  [fatal |-> \E i \in long_wait_cells(a) :
                            long_wait_diff(cells[a][i])
                                > srv_fatal_semaphore_wait_threshold,
              noticed |-> lw.noticed \/ warned # {},
              waiter |-> longest.waiter,
              sema |-> longest.sema,
              warned |-> warned,
              printed |-> IF lw.noticed \/ warned # {}
                          THEN long_wait_cells(a) ELSE {}]

\* ---------------------------------------------------------------- Init
\* sync_array_init and the creation of the latches: every cell zeroed, no
\* reservation, every mutex free, every latch unlocked, every thread outside
\* the wait array.
ArrInit ==
    /\ cells = [a \in Arrs |-> [i \in Cells |-> FreeCell]]
    /\ n_reserved = [a \in Arrs |-> 0]
    /\ os_mutex = [a \in Arrs |-> NoThread]
    /\ count = 0
    /\ events = [e \in Events |-> os_event_create]
    /\ lock_word = [o \in Objects |-> IF o \in Mutexes THEN 0 ELSE X_LOCK_DECR]
    /\ thread_id = [m \in Mutexes |-> ULINT_UNDEFINED]
    /\ debug_list = [l \in RwLocks |-> <<>>]
    /\ pc = [t \in Threads |-> "idle"]
    /\ t_arr = [t \in Threads |-> 0]
    /\ t_idx = [t \in Threads |-> 0]
    /\ sw_arr = 0
    /\ err = "none"

Init == ArrInit /\ ExtInit

latch_vars == <<lock_word, thread_id, debug_list>>
array_vars == <<cells, n_reserved, os_mutex>>
local_vars == <<t_arr, t_idx>>

\* ------------------------------------------------------------- actions
\* A thread that found its latch busy picks the wait-array instance:
\* sync_array_get, i = os_atomic_increment_ulint(&count, 1), instance i % size.
sync_array_get(t) ==
    /\ err = "none"
    /\ pc[t] = "idle"
    /\ count' = (count + 1) % sync_array_size
    /\ t_arr' = [t_arr EXCEPT ![t] = count']
    /\ pc' = [pc EXCEPT ![t] = "reserve"]
    /\ UNCHANGED <<array_vars, events, latch_vars, ext_vars, t_idx, sw_arr, err>>

\* sync_array_reserve_cell(arr, object, type, ..., &index) from
\* sync_array_enter to its sync_array_exit: the scan for a free cell.  When
\* the loop finds none the function returns false and sync_array_exit is not
\* called: the mutex stays with the thread.
sync_array_reserve_cell(t, object, type) ==
    LET a == t_arr[t]
        i == reserve_cell_find(a)
    IN  /\ err = "none"
        /\ pc[t] = "reserve"
        /\ os_mutex[a] = NoThread
        /\ IF i # -1
           THEN /\ cells' = [cells EXCEPT ![a][i] =
                                reserve_cell_fill(@, object, type)]
                /\ n_reserved' = [n_reserved EXCEPT ![a] = @ + 1]
                /\ t_idx' = [t_idx EXCEPT ![t] = i]
                /\ pc' = [pc EXCEPT ![t] = "reserve_tail"]
                /\ UNCHANGED os_mutex
           ELSE /\ os_mutex' = [os_mutex EXCEPT ![a] = t]
                /\ pc' = [pc EXCEPT ![t] = "nocell"]
                /\ UNCHANGED <<cells, n_reserved, t_idx>>
        /\ UNCHANGED <<count, events, latch_vars, ext_vars, t_arr, sw_arr, err>>

\* sync_array_reserve_cell after sync_array_exit, outside the mutex: the
\* event of the cell is reset, the generation the reset returns is stored in
\* cell->signal_count, cell->thread is set to the caller and the function
\* returns true.  These are stores of the reserving thread to its own cell;
\* until this step the cell is reserved but still carries the thread id (and
\* signal_count 0) that its previous use left in it.
reserve_cell_tail(t) ==
    LET a == t_arr[t]
        i == t_idx[t]
        e == sync_cell_get_event(cells[a][i])
    IN  /\ err = "none"
        /\ pc[t] = "reserve_tail"
        /\ events' = [events EXCEPT ![e] = os_event_reset(@)]
        /\ cells' = [cells EXCEPT ![a][i].signal_count = events[e].signal_count,
                                  ![a][i].reservation_time = now,
                                  ![a][i].thread = t]
        /\ pc' = [pc EXCEPT ![t] = "reserved"]
        /\ UNCHANGED <<n_reserved, os_mutex, count, latch_vars, ext_vars, local_vars,
                       sw_arr, err>>

\* The caller after sync_array_reserve_cell returned false: it gives up this
\* instance and asks sync_array_get again.
reserve_failed(t) ==
    /\ err = "none"
    /\ pc[t] = "nocell"
    /\ pc' = [pc EXCEPT ![t] = "idle"]
    /\ t_arr' = [t_arr EXCEPT ![t] = 0]
    /\ UNCHANGED <<array_vars, count, events, latch_vars, ext_vars, t_idx, sw_arr, err>>

\* sync_array_wait_event from sync_array_enter to sync_array_exit: the
\* assertions, cell->waiting = TRUE and, in the debug build, the deadlock
\* search, which ends the server (ut_error) when it finds a cycle.
sync_array_wait_event(t) ==
    LET a == t_arr[t]
        i == t_idx[t]
        cell == cells[a][i]
    IN  /\ err = "none"
        /\ pc[t] = "reserved"
        /\ os_mutex[a] = NoThread
        /\ UNCHANGED <<n_reserved, os_mutex, count, events,
                       latch_vars, ext_vars, local_vars, sw_arr>>
        /\ IF cell.wait_object = NULL
           THEN /\ err' = "wait_event: ut_a(cell->wait_object)"
                /\ UNCHANGED <<cells, pc>>
           ELSE IF cell.waiting
           THEN /\ err' = "wait_event: ut_a(!cell->waiting)"
                /\ UNCHANGED <<cells, pc>>
           ELSE IF cell.thread # t
           THEN /\ err' = "wait_event: ut_ad(curr_id == cell->thread)"
                /\ UNCHANGED <<cells, pc>>
           ELSE /\ cells' = [cells EXCEPT ![a][i].waiting = TRUE]
                /\ pc' = [pc EXCEPT ![t] = "blocked"]
                \* the search runs on the array with the cell marked
                /\ err' = LET ret == sync_array_detect_deadlock(a, i, i, 0)'
                          IN  IF ret = "deadlock" THEN "DEADLOCK"
                              ELSE IF ret = "depth"
                                   THEN "detect_deadlock: ut_ad(depth < 100)"
                                   ELSE "none"

\* os_event_wait_low(event, cell->signal_count) inside sync_array_wait_event:
\* the thread is blocked, outside every mutex, until the event is set or its
\* generation differs from the one stored in the cell.
os_event_wait_low(t) ==
    LET cell == cells[t_arr[t]][t_idx[t]]
    IN  /\ err = "none"
        /\ pc[t] = "blocked"
        /\ wait_event_done(cell)
        /\ pc' = [pc EXCEPT ![t] = "wait_free"]
        /\ UNCHANGED <<array_vars, count, events, latch_vars, ext_vars, local_vars,
                       sw_arr, err>>

\* sync_array_free_cell(arr, index): called by the reserver instead of
\* sync_array_wait_event (pc "reserved"), or by sync_array_wait_event itself
\* when the wait is over (pc "wait_free").
sync_array_free_cell(t) ==
    LET a == t_arr[t]
        i == t_idx[t]
        cell == cells[a][i]
    IN  /\ err = "none"
        /\ pc[t] \in {"reserved", "wait_free"}
        /\ os_mutex[a] = NoThread
        /\ IF cell.wait_object = NULL
           THEN /\ err' = "free_cell: ut_a(cell->wait_object != NULL)"
                /\ UNCHANGED <<cells, n_reserved, pc, local_vars>>
           ELSE IF ~(n_reserved[a] > 0)
           THEN /\ err' = "free_cell: ut_a(arr->n_reserved > 0)"
                /\ cells' = [cells EXCEPT ![a][i] = free_cell_clear(@)]
                /\ UNCHANGED <<n_reserved, pc, local_vars>>
           ELSE /\ cells' = [cells EXCEPT ![a][i] = free_cell_clear(@)]
                /\ n_reserved' = [n_reserved EXCEPT ![a] = @ - 1]
                /\ pc' = [pc EXCEPT ![t] = "idle"]
                /\ t_arr' = [t_arr EXCEPT ![t] = 0]
                /\ t_idx' = [t_idx EXCEPT ![t] = 0]
                /\ UNCHANGED err
        /\ UNCHANGED <<os_mutex, count, events, latch_vars, ext_vars, sw_arr>>

\* sync_array_wake_threads_if_sema_free_low(arr): under the mutex, the event
\* of every reserved cell that can wake up is set.
sync_array_wake_threads_if_sema_free_low(a) ==
    LET scan == wake_scan(a, 0, 0, {})
        woken == {sync_cell_get_event(cells[a][i]) : i \in scan.woken}
    IN  /\ err = "none"
        /\ os_mutex[a] = NoThread
        /\ events' = [e \in Events |->
                        IF e \in woken THEN os_event_set(events[e]) ELSE events[e]]
        /\ err' = IF scan.overrun THEN "get_nth_cell: ut_a(n < arr->n_cells)"
                  ELSE "none"
        /\ UNCHANGED <<array_vars, count, latch_vars, ext_vars, pc, local_vars>>

\* The sweep thread visits some instance (the instances are independent of
\* each other, and other threads run between two visits).
wake_any ==
    \E a \in Arrs :
        sync_array_wake_threads_if_sema_free_low(a) /\ UNCHANGED sw_arr

\* sync_arr_wake_threads_if_sema_free: the loop over the instances in order,
\* one instance per step; sw_arr is its loop variable i (0 between two calls).
sync_arr_wake_threads_if_sema_free ==
    /\ sync_array_wake_threads_if_sema_free_low(sw_arr)
    /\ sw_arr' = (sw_arr + 1) % sync_array_size

\* sync_array_validate(arr): ut_a(count == arr->n_reserved) under the mutex.
sync_array_validate(a) ==
    /\ err = "none"
    /\ os_mutex[a] = NoThread
    /\ err' = IF Cardinality({i \in Cells : cells[a][i].wait_object # NULL})
                 = n_reserved[a]
              THEN "none"
              ELSE "validate: ut_a(count == arr->n_reserved)"
    /\ UNCHANGED <<array_vars, count, events, latch_vars, ext_vars, pc, local_vars, sw_arr>>

\* ------------------------------------------------------ the latches' side
\* The lock words a latch can show: a mutex is free (0) or held (1); an
\* rw-lock is unlocked (X_LOCK_DECR), read locked (0 < w < X_LOCK_DECR),
\* write locked (0), or reserved by a writer that waits for readers (w < 0).
LockWords(o) == IF o \in Mutexes THEN {0, 1} ELSE (0 - 1) .. X_LOCK_DECR

\* A holder of the latch changes its lock word (lock, unlock, a reader
\* leaving) without touching the wait array.
latch_transition(o) ==
    /\ err = "none"
    /\ \E w \in LockWords(o) \ {lock_word[o]} :
           lock_word' = [lock_word EXCEPT ![o] = w]
    /\ UNCHANGED <<array_vars, count, events, thread_id, debug_list, ext_vars, pc,
                   local_vars, sw_arr, err>>

\* A thread that released a latch whose waiters flag it saw set signals the
\* latch's event (mutex_signal_object, rw_lock's os_event_set).
signal_object(e) ==
    /\ err = "none"
    /\ ~events[e].is_set
    /\ events' = [events EXCEPT ![e] = os_event_set(@)]
    /\ UNCHANGED <<array_vars, count, latch_vars, ext_vars, pc, local_vars, sw_arr, err>>

\* sync_array_print_long_waits: the loop over the instances, one instance
\* (sync_array_enter, sync_array_print_long_waits_low, sync_array_exit) per
\* step; fatal and noticed start as FALSE in every call.
sync_array_print_long_waits ==
    LET a == long_waits.i
        lw == IF a = 0
              THEN [long_waits EXCEPT !.fatal = FALSE, !.noticed = FALSE]
              ELSE long_waits
        low == sync_array_print_long_waits_low(a, lw)
    IN  /\ err = "none"
        /\ os_mutex[a] = NoThread
        /\ long_waits' = [i |-> (a + 1) % sync_array_size,
                          fatal |-> (lw.fatal \/ low.fatal),
                          noticed |-> low.noticed,
                          waiter |-> low.waiter,
                          sema |-> low.sema,
                          warned |-> low.warned,
                          printed |-> low.printed]
        /\ UNCHANGED <<array_vars, count, events, latch_vars, pc, local_vars,
                       sw_arr, err, now, srv_fatal_semaphore_wait_threshold,
                       monitor_others>>

\* The clock: time(NULL) grows.
tick ==
    /\ err = "none"
    /\ now + TimeStep <= MaxNow
    /\ now' = now + TimeStep
    /\ UNCHANGED <<array_vars, count, events, latch_vars, pc, local_vars,
                   sw_arr, err, srv_fatal_semaphore_wait_threshold, long_waits,
                   monitor_others>>

\* CHECK TABLE and the like raise srv_fatal_semaphore_wait_threshold by
\* SRV_SEMAPHORE_WAIT_EXTENSION while they run and lower it afterwards.
semaphore_wait_extension ==
    /\ err = "none"
    /\ srv_fatal_semaphore_wait_threshold' =
          IF srv_fatal_semaphore_wait_threshold > SRV_SEMAPHORE_WAIT_EXTENSION
          THEN srv_fatal_semaphore_wait_threshold - SRV_SEMAPHORE_WAIT_EXTENSION
          ELSE srv_fatal_semaphore_wait_threshold + SRV_SEMAPHORE_WAIT_EXTENSION
    /\ UNCHANGED <<array_vars, count, events, latch_vars, pc, local_vars,
                   sw_arr, err, now, long_waits, monitor_others>>

\* ---------------------------------------------------------------- Spec
\* A new reservation: the generation of the event it will wait on is below
\* the cap of the run.
MayReserve(r) ==
    events[sync_cell_get_event([wait_object |-> r.object,
                                request_type |-> r.type])].signal_count
        < MaxSignalCount

\* The requests of the threads of Spec: all of them contend for the mutex.
SpecRequests == {[object |-> "M", type |-> SYNC_MUTEX]}

ThreadStep(t, requests) ==
    \/ sync_array_get(t)
    \/ \E r \in requests :
          MayReserve(r) /\ sync_array_reserve_cell(t, r.object, r.type)
    \/ reserve_cell_tail(t)
    \/ reserve_failed(t)
    \/ sync_array_wait_event(t)
    \/ os_event_wait_low(t)
    \/ sync_array_free_cell(t)

Next ==
    \/ \E t \in Threads : ThreadStep(t, SpecRequests)
    \/ wake_any
    \/ \E a \in Arrs : sync_array_validate(a)
    \/ \E r \in SpecRequests :
          signal_object(sync_cell_get_event([wait_object |-> r.object,
                                             request_type |-> r.type]))

Spec == Init /\ [][Next]_vars

\* ------------------------------------------------------- waiting threads
\* The wait array with some threads blocked in sync_array_wait_event and the
\* others outside it: every blocked thread has a cell of its own, reserved
\* for one of the requests and marked as waiting, with the generation of the
\* event at its reset; the reserved cells of an instance are its first cells
\* (sync_array_reserve_cell takes the lowest free cell), the others are as
\* sync_array_create left them, and n_reserved counts the reserved ones.
WaitingCells(requests) ==
    /\ pc \in [Threads -> {"idle", "blocked"}]
    /\ t_arr \in [Threads -> Arrs]
    /\ t_idx \in [Threads -> Cells]
    /\ \A t \in Threads : pc[t] = "idle" => t_arr[t] = 0 /\ t_idx[t] = 0
    /\ \A t, u \in Threads :
          (t # u /\ pc[t] # "idle" /\ pc[u] # "idle")
              => <<t_arr[t], t_idx[t]>> # <<t_arr[u], t_idx[u]>>
    /\ \A t \in Threads :
          pc[t] # "idle" =>
              \A j \in 0 .. (t_idx[t] - 1) :
                  \E u \in Threads :
                      pc[u] # "idle" /\ t_arr[u] = t_arr[t] /\ t_idx[u] = j
    /\ \E req \in [Threads -> requests] :
          cells = [a \in Arrs |-> [i \in Cells |->
                    IF \E t \in Threads :
                          pc[t] # "idle" /\ t_arr[t] = a /\ t_idx[t] = i
                    THEN LET t == CHOOSE t \in Threads :
                                    pc[t] # "idle" /\ t_arr[t] = a /\ t_idx[t] = i
                         IN  [wait_object |-> req[t].object,
                              request_type |-> req[t].type,
                              thread |-> t,
                              waiting |-> TRUE,
                              signal_count |-> os_event_create.signal_count,
                              reservation_time |-> 0]
                    ELSE FreeCell]]
    /\ n_reserved = [a \in Arrs |->
                       Cardinality({i \in Cells : cells[a][i].wait_object # NULL})]
    /\ os_mutex = [a \in Arrs |-> NoThread]
    /\ events = [e \in Events |-> os_event_create]

\* The waiting threads beside latches that nobody holds.
WaitingThreads(requests) ==
    /\ WaitingCells(requests)
    /\ lock_word = [o \in Objects |-> IF o \in Mutexes THEN 0 ELSE X_LOCK_DECR]
    /\ thread_id = [m \in Mutexes |-> ULINT_UNDEFINED]
    /\ debug_list = [l \in RwLocks |-> <<>>]
    /\ sw_arr = 0
    /\ err = "none"
    /\ ExtInit

\* ----------------------------------------------------------- SweepSpec
\* The sweep on the contents of the arrays: threads wait for the mutex and
\* for the latch P1 with every request type, the latches change their lock
\* words, the sweep visits the instances, woken threads leave their cells.
SweepRequests == {r \in Requests : r.object \in {"M", "P1"}}

SweepInit ==
    /\ WaitingThreads(SweepRequests)
    /\ count = 0

SweepNext ==
    \/ sync_arr_wake_threads_if_sema_free
    \/ \E o \in {"M", "P1"} : latch_transition(o)
    \/ \E t \in Threads : os_event_wait_low(t)
    \/ \E t \in Threads : sync_array_free_cell(t)

SweepSpec == SweepInit /\ [][SweepNext]_vars

\* ------------------------------------------------------------ FairSpec
\* Threads wait for the mutex M, which is free: the release predicate of
\* their requests holds throughout, and nobody signals the event, so that
\* only the sweep can end a wait.  The other threads go on asking for cells
\* (a thread that has reserved a cell waits), the sweep thread calls
\* sync_arr_wake_threads_if_sema_free again and again, and every thread that
\* can take a step eventually takes one.
FairInit ==
    /\ WaitingThreads(SpecRequests)
    /\ count \in Arrs

FairThreadStep(t) ==
    \/ sync_array_get(t)
    \/ \E r \in SpecRequests :
          MayReserve(r) /\ sync_array_reserve_cell(t, r.object, r.type)
    \/ reserve_cell_tail(t)
    \/ reserve_failed(t)
    \/ sync_array_wait_event(t)
    \/ os_event_wait_low(t)
    \/ pc[t] = "wait_free" /\ sync_array_free_cell(t)

FairNext ==
    \/ \E t \in Threads : FairThreadStep(t)
    \/ sync_arr_wake_threads_if_sema_free

FairSpec ==
    /\ FairInit
    /\ [][FairNext]_vars
    /\ WF_vars(sync_arr_wake_threads_if_sema_free)
    /\ \A t \in Threads : WF_vars(FairThreadStep(t))

\* -------------------------------------------------------------- DLSpec
\* The debug build with two threads in a latch cycle: ThreadA holds an x-lock
\* on P1 and ThreadB an s-lock on P2 (the entries of the debug lists, pass
\* 0); ThreadB then asks for an x-lock on P1, ThreadA for a lock on P2,
\* shared or exclusive.  The other threads contend for the mutex M.
ThreadA == 1
ThreadB == 2

DLInit ==
    /\ cells = [a \in Arrs |-> [i \in Cells |-> FreeCell]]
    /\ n_reserved = [a \in Arrs |-> 0]
    /\ os_mutex = [a \in Arrs |-> NoThread]
    /\ count = 0
    /\ events = [e \in Events |-> os_event_create]
    /\ lock_word = [o \in Objects |->
                      IF o \in Mutexes THEN 0
                      ELSE IF o = "P1" THEN 0 ELSE X_LOCK_DECR - 1]
    /\ thread_id = [m \in Mutexes |-> ULINT_UNDEFINED]
    /\ debug_list =
          [l \in RwLocks |->
              IF l = "P1"
              THEN <<[thread_id |-> ThreadA, lock_type |-> RW_LOCK_EX, pass |-> 0]>>
              ELSE <<[thread_id |-> ThreadB, lock_type |-> RW_LOCK_SHARED, pass |-> 0]>>]
    /\ pc = [t \in Threads |-> "idle"]
    /\ t_arr = [t \in Threads |-> 0]
    /\ t_idx = [t \in Threads |-> 0]
    /\ sw_arr = 0
    /\ err = "none"
    /\ ExtInit

DLRequests(t) ==
    IF t = ThreadA
    THEN {[object |-> "P2", type |-> RW_LOCK_SHARED],
          [object |-> "P2", type |-> RW_LOCK_EX]}
    ELSE IF t = ThreadB
    THEN {[object |-> "P1", type |-> RW_LOCK_EX]}
    ELSE SpecRequests

DLNext ==
    \/ \E t \in Threads : ThreadStep(t, DLRequests(t))
    \/ signal_object(<<"M", "event">>)

DLSpec == DLInit /\ [][DLNext]_vars

\* ---------------------------------------------------------- MonitorSpec
\* Threads reserve cells for the mutex and wait; nobody wakes them.  The
\* clock advances, the monitor thread calls sync_array_print_long_waits, and
\* the fatal threshold is raised and lowered.
MonitorThreadStep(t) ==
    \/ sync_array_get(t)
    \/ \E r \in SpecRequests : sync_array_reserve_cell(t, r.object, r.type)
    \/ reserve_cell_tail(t)
    \/ sync_array_wait_event(t)

MonitorNext ==
    \/ \E t \in Threads : MonitorThreadStep(t)
    \/ tick
    \/ semaphore_wait_extension
    \/ sync_array_print_long_waits

MonitorSpec == Init /\ [][MonitorNext]_vars

\* The behaviours of MonitorSpec in which a call of
\* sync_array_print_long_waits runs from its first instance to its last
\* while the other threads and the clock stand still.
LongWaitNext ==
    \/ \E t \in Threads : long_waits.i = 0 /\ MonitorThreadStep(t)
    \/ long_waits.i = 0 /\ tick
    \/ long_waits.i = 0 /\ semaphore_wait_extension
    \/ sync_array_print_long_waits

LongWaitSpec == Init /\ [][LongWaitNext]_vars

\* ------------------------------------------------------------ the mutex
\* The custom mutex M: lock_word["M"] (0 free, 1 held), the waiters flag and
\* the event <<"M", "event">>.  mpc[t] is "out" (outside), "spin" (the fast
\* path failed), "set_waiters" (spinning is over), "arr" (reserving a cell),
\* "retry" (the re-check saw the mutex free), "wait" (it saw it held), "in"
\* (the thread holds the mutex), "exit" (it stored 0 and has not looked at
\* waiters yet).
MutexEvent == <<"M", "event">>

\* Mutant of ib_mutex_test_and_set: a plain store of 1 that reports success.
ib_mutex_test_and_set_blind(word) == [old |-> 0, new |-> 1]

\* The atomic test-and-set (CAS 0 -> 1) of the lock word: the value it saw and
\* the value it leaves.
ib_mutex_test_and_set(word) == [old |-> word, new |-> 1]

\* Mutant of mutex_exit_signals: the event is never set.
mutex_exit_signals_never(w) == FALSE

\* Unlock: "if waiters, set the event".
mutex_exit_signals(w) == w # 0

\* A new reservation for M: the generation of its event is below the cap.
MutexMayReserve(cap) == events[MutexEvent].signal_count < cap

\* mutex_enter, the fast path: CAS 0 -> 1; a thread back from the wait array
\* retries it.
mutex_enter(t) ==
    LET r == ib_mutex_test_and_set(lock_word["M"])
    IN  /\ err = "none"
        /\ pc[t] = "idle"
        /\ mpc[t] \in {"out", "retry", "wait"}
        /\ lock_word' = [lock_word EXCEPT !["M"] = r.new]
        /\ mpc' = [mpc EXCEPT ![t] = IF r.old = 0 THEN "in" ELSE "spin"]
        /\ UNCHANGED <<array_vars, count, events, thread_id, debug_list, pc,
                       local_vars, sw_arr, err, waiters, mutex_others>>

\* The slow path, spinning: the thread tries the lock word again and gives
\* up spinning when it is still held.
mutex_spin_wait(t) ==
    LET r == ib_mutex_test_and_set(lock_word["M"])
    IN  /\ err = "none"
        /\ mpc[t] = "spin"
        /\ lock_word' = [lock_word EXCEPT !["M"] = r.new]
        /\ mpc' = [mpc EXCEPT ![t] = IF r.old = 0 THEN "in" ELSE "set_waiters"]
        /\ UNCHANGED <<array_vars, count, events, thread_id, debug_list, pc,
                       local_vars, sw_arr, err, waiters, mutex_others>>

\* The slow path: waiters = 1, then the cell is reserved.
mutex_set_waiters(t) ==
    /\ err = "none"
    /\ mpc[t] = "set_waiters"
    /\ waiters' = 1
    /\ mpc' = [mpc EXCEPT ![t] = "arr"]
    /\ UNCHANGED <<array_vars, count, events, latch_vars, pc, local_vars,
                   sw_arr, err, mutex_others>>

\* The slow path: with the cell reserved the lock word is read again.
mutex_recheck(t) ==
    /\ err = "none"
    /\ mpc[t] = "arr"
    /\ pc[t] = "reserved"
    /\ mpc' = [mpc EXCEPT ![t] = IF lock_word["M"] = 0 THEN "retry" ELSE "wait"]
    /\ UNCHANGED <<array_vars, count, events, latch_vars, pc, local_vars,
                   sw_arr, err, waiters, mutex_others>>

\* The slow path in the wait array: the instance, the cell, then either
\* sync_array_free_cell (the mutex was free at the re-check) or
\* sync_array_wait_event, which frees the cell when the wait is over.
mutex_wait_array(t, cap) ==
    \/ mpc[t] = "arr" /\ sync_array_get(t)
    \/ /\ mpc[t] = "arr"
       /\ MutexMayReserve(cap)
       /\ sync_array_reserve_cell(t, "M", SYNC_MUTEX)
    \/ mpc[t] = "arr" /\ reserve_cell_tail(t)
    \/ mpc[t] = "retry" /\ pc[t] = "reserved" /\ sync_array_free_cell(t)
    \/ mpc[t] = "wait" /\ sync_array_wait_event(t)
    \/ mpc[t] = "wait" /\ os_event_wait_low(t)
    \/ mpc[t] = "wait" /\ pc[t] = "wait_free" /\ sync_array_free_cell(t)

\* mutex_exit: store 0 to the lock word ...
mutex_exit(t) ==
    /\ err = "none"
    /\ mpc[t] = "in"
    /\ lock_word' = [lock_word EXCEPT !["M"] = 0]
    /\ mpc' = [mpc EXCEPT ![t] = "exit"]
    /\ UNCHANGED <<array_vars, count, events, thread_id, debug_list, pc,
                   local_vars, sw_arr, err, waiters, mutex_others>>

\* ... and then, if waiters is set, set the event.
mutex_exit_signal(t) ==
    /\ err = "none"
    /\ mpc[t] = "exit"
    /\ events' = IF mutex_exit_signals(waiters)
                 THEN [events EXCEPT ![MutexEvent] = os_event_set(@)]
                 ELSE events
    /\ mpc' = [mpc EXCEPT ![t] = "out"]
    /\ UNCHANGED <<array_vars, count, latch_vars, pc, local_vars, sw_arr, err,
                   waiters, mutex_others>>

MutexThreadStep(t, cap) ==
    \/ mutex_enter(t)
    \/ mutex_spin_wait(t)
    \/ mutex_set_waiters(t)
    \/ mutex_wait_array(t, cap)
    \/ mutex_recheck(t)
    \/ mutex_exit(t)
    \/ mutex_exit_signal(t)

MutexNext == \E t \in Threads : MutexThreadStep(t, MaxSignalCount + 1)

\* The threads lock and unlock M.
MutexSpec == Init /\ [][MutexNext]_vars

\* The same with every thread scheduled again and again, and a lower cap on
\* the generations of the event.
MutexFairNext == \E t \in Threads : MutexThreadStep(t, MaxSignalCount)

MutexFairSpec ==
    /\ Init
    /\ [][MutexFairNext]_vars
    /\ \A t \in Threads : WF_vars(MutexThreadStep(t, MaxSignalCount))

\* ---------------------------------------------------------- the rw-lock
\* The reader/writer lock P1: lock_word["P1"], biased at X_LOCK_DECR.  rpc[t]
\* is "out", "s_undo" (the shared fetch_sub failed and is not yet undone),
\* "s_wait" (asleep with RW_LOCK_SHARED), "s" (holds shared), "x_wait"
\* (asleep with RW_LOCK_EX), "wait_ex" (reserved the writer's place, waits
\* for the readers to leave with RW_LOCK_WAIT_EX), "x" (holds exclusive).
\* A sleeping thread retries when it is woken, which can be at any time.

\* The writer's decrement by X_LOCK_DECR is made from a word above 0 only.
rw_lock_x_decr_ok(word) == word > 0

\* Shared lock: fetch_sub(1); success if the result is above 0.
rw_lock_s_lock(t) ==
    LET result == lock_word["P1"] - 1
    IN  /\ err = "none"
        /\ rpc[t] \in {"out", "s_wait"}
        /\ lock_word' = [lock_word EXCEPT !["P1"] = result]
        /\ rpc' = [rpc EXCEPT ![t] = IF result > 0 THEN "s" ELSE "s_undo"]
        /\ UNCHANGED <<array_vars, count, events, thread_id, debug_list, pc,
                       local_vars, sw_arr, err, rw_others>>

\* ... else undo, and sleep via the wait array with RW_LOCK_SHARED.
rw_lock_s_undo(t) ==
    /\ err = "none"
    /\ rpc[t] = "s_undo"
    /\ lock_word' = [lock_word EXCEPT !["P1"] = @ + 1]
    /\ rpc' = [rpc EXCEPT ![t] = "s_wait"]
    /\ UNCHANGED <<array_vars, count, events, thread_id, debug_list, pc,
                   local_vars, sw_arr, err, rw_others>>

\* A reader leaves.
rw_lock_s_unlock(t) ==
    /\ err = "none"
    /\ rpc[t] = "s"
    /\ lock_word' = [lock_word EXCEPT !["P1"] = @ + 1]
    /\ rpc' = [rpc EXCEPT ![t] = "out"]
    /\ UNCHANGED <<array_vars, count, events, thread_id, debug_list, pc,
                   local_vars, sw_arr, err, rw_others>>

\* Exclusive lock: from a word above 0 the writer takes X_LOCK_DECR; from
\* X_LOCK_DECR (clean) it owns the lock at once, otherwise it waits for the
\* residual readers; from a word not above 0 it sleeps with RW_LOCK_EX.
rw_lock_x_lock(t) ==
    LET word == lock_word["P1"]
    IN  /\ err = "none"
        /\ rpc[t] \in {"out", "x_wait"}
        /\ IF rw_lock_x_decr_ok(word)
           THEN /\ lock_word' = [lock_word EXCEPT !["P1"] = word - X_LOCK_DECR]
                /\ rpc' = [rpc EXCEPT ![t] = IF word = X_LOCK_DECR
                                             THEN "x" ELSE "wait_ex"]
           ELSE /\ rpc' = [rpc EXCEPT ![t] = "x_wait"]
                /\ UNCHANGED lock_word
        /\ UNCHANGED <<array_vars, count, events, thread_id, debug_list, pc,
                       local_vars, sw_arr, err, rw_others>>

\* The writer that took its place from above 0 waits until lock_word == 0.
rw_lock_x_lock_wait(t) ==
    /\ err = "none"
    /\ rpc[t] = "wait_ex"
    /\ lock_word["P1"] = 0
    /\ rpc' = [rpc EXCEPT ![t] = "x"]
    /\ UNCHANGED <<array_vars, count, events, latch_vars, pc, local_vars,
                   sw_arr, err, rw_others>>

\* The writer leaves.
rw_lock_x_unlock(t) ==
    /\ err = "none"
    /\ rpc[t] = "x"
    /\ lock_word' = [lock_word EXCEPT !["P1"] = @ + X_LOCK_DECR]
    /\ rpc' = [rpc EXCEPT ![t] = "out"]
    /\ UNCHANGED <<array_vars, count, events, thread_id, debug_list, pc,
                   local_vars, sw_arr, err, rw_others>>

RwNext ==
    \E t \in Threads :
        \/ rw_lock_s_lock(t)
        \/ rw_lock_s_undo(t)
        \/ rw_lock_s_unlock(t)
        \/ rw_lock_x_lock(t)
        \/ rw_lock_x_lock_wait(t)
        \/ rw_lock_x_unlock(t)

RwSpec == Init /\ [][RwNext]_vars

\* What the pool's operations leave alone.
pool_others == <<array_vars, count, events, latch_vars, pc, local_vars, sw_arr,
                 err, monitor_vars, mutex_vars, rw_vars, tmp_vars, create_vars, print_vars, auth_vars>>

\* ------------------------------------------------- the pool's operations
\* Mutant of ListRemove: the list is left as it is.
ListRemove_not(s, x) == s

\* The sequence s without its element x.
ListRemove(s, x) == SelectSeq(s, LAMBDA y : y # x)

\* The position of x in the list s (0 when it is not there).
ListIndex(s, x) ==
    IF \E i \in 1 .. Len(s) : s[i] = x
    THEN CHOOSE i \in 1 .. Len(s) : s[i] = x
    ELSE 0

ListSet(s) == {s[i] : i \in 1 .. Len(s)}

\* Mutant of page_hash_delete: the entry stays.
page_hash_delete_not(h, p) == h

\* The entry of page p is taken out of the page hash.
page_hash_delete(h, p) == [h EXCEPT ![p] = 0]

\* Mutant of free_list_add: the block is not put on the list.
free_list_add_not(list, d) == list

\* A block is put on the free list (at its head).
free_list_add(list, d) == <<d>> \o list

\* Mutant of buf_block_unfix: the count is left as it is.
buf_block_unfix_not(c) == c

\* buf_block_fix / buf_block_unfix: the bufferfix count up and down by one.
buf_block_fix(c) == c + 1
buf_block_unfix(c) == c - 1

\* Mutant of block_latch_free: an x-latch is granted beside shared holders.
block_latch_free_beside_readers(b, latch) ==
    IF latch = RW_NO_LATCH THEN TRUE ELSE b.lock_x = NoThread

\* Can the block's latch be taken in the requested mode?
block_latch_free(b, latch) ==
    IF latch = RW_NO_LATCH THEN TRUE
    ELSE IF latch = RW_S_LATCH THEN b.lock_x = NoThread
    ELSE b.lock_x = NoThread /\ b.lock_s = {}

\* The block with its latch taken by holder h in the requested mode ...
block_latch(b, latch, h) ==
    IF latch = RW_NO_LATCH THEN b
    ELSE IF latch = RW_S_LATCH THEN [b EXCEPT !.lock_s = @ \cup {h}]
    ELSE [b EXCEPT !.lock_x = h]

\* ... and with that latch dropped.
block_unlatch(b, latch, h) ==
    IF latch = RW_NO_LATCH THEN b
    ELSE IF latch = RW_S_LATCH THEN [b EXCEPT !.lock_s = @ \ {h}]
    ELSE [b EXCEPT !.lock_x = NoThread]

\* Mutant of buf_flush_ready_for_replace: a dirty page can be replaced.
buf_flush_ready_for_replace_dirty(b) ==
    b.buf_fix_count = 0 /\ b.io_fix = BUF_IO_NONE

\* Eviction is permitted iff the block is not pinned, not I/O-fixed, clean.
buf_flush_ready_for_replace(b) ==
    b.buf_fix_count = 0 /\ b.io_fix = BUF_IO_NONE /\ b.oldest_modification = 0

\* Mutant of flush_list_insert: the block is added at the tail.
flush_list_insert_last(list, d) == Append(list, d)

\* First dirtying: the block is prepended at the head of the flush list.
flush_list_insert(list, d) == <<d>> \o list

\* The blocks of the pool a thread has fixed (got and not yet released).
Fixed(t) == {e[1] : e \in {f \in mtr[t] : f[2] \in Latches}}

\* get(page, latch), lookup: a page found in the hash as a file page is
\* pinned; a page not in the hash takes the miss path; a page that is being
\* read in is waited for.
buf_page_get_gen(t, p, latch) ==
    LET d == page_hash[p]
    IN  /\ bpc[t].op = "idle"
        /\ IF d # 0
           THEN /\ blocks[d].state = BUF_BLOCK_FILE_PAGE
                /\ d \notin Fixed(t)
                /\ blocks' = [blocks EXCEPT ![d].buf_fix_count = buf_block_fix(@)]
                /\ bpc' = [bpc EXCEPT ![t] = [op |-> "latch", d |-> d,
                                              page |-> p, latch |-> latch,
                                              n_free |-> 0]]
           ELSE /\ bpc' = [bpc EXCEPT ![t] = [op |-> "miss", d |-> 0,
                                              page |-> p, latch |-> latch,
                                              n_free |-> Len(free)]]
                /\ UNCHANGED blocks
        /\ UNCHANGED <<free, flush_list, page_hash, pool_mutex,
                       flush_list_mutex, lsn, flush_batch, io_pc, mtr,
                       pool_others>>

\* get, hit path: the block latch is acquired in the requested mode.
buf_page_get_latch(t) ==
    LET d == bpc[t].d
        latch == bpc[t].latch
    IN  /\ bpc[t].op = "latch"
        /\ block_latch_free(blocks[d], latch)
        /\ blocks' = [blocks EXCEPT ![d] = block_latch(@, latch, t)]
        /\ mtr' = [mtr EXCEPT ![t] = @ \cup {<<d, latch>>}]
        /\ bpc' = [bpc EXCEPT ![t] = IdleOp]
        /\ UNCHANGED <<free, flush_list, page_hash, pool_mutex,
                       flush_list_mutex, lsn, flush_batch, io_pc, pool_others>>

\* buf_block_alloc: a block for a main memory object is asked for.
buf_block_alloc(t) ==
    /\ bpc[t].op = "idle"
    /\ bpc' = [bpc EXCEPT ![t] = [op |-> "miss", d |-> 0, page |-> 0,
                                  latch |-> RW_NO_LATCH, n_free |-> 0]]
    /\ UNCHANGED <<blocks, free, flush_list, page_hash, pool_mutex,
                   flush_list_mutex, lsn, flush_batch, io_pc, mtr, pool_others>>

\* buf_LRU_get_free_block: under the pool mutex the first block of the free
\* list is taken off the list ...
buf_LRU_get_free_block(t) ==
    /\ bpc[t].op = "miss"
    /\ pool_mutex = NoThread
    /\ free # <<>>
    /\ pool_mutex' = t
    /\ free' = Tail(free)
    /\ bpc' = [bpc EXCEPT ![t].op = "got_free", ![t].d = Head(free)]
    /\ UNCHANGED <<blocks, flush_list, page_hash, flush_list_mutex, lsn,
                   flush_batch, io_pc, mtr, pool_others>>

\* The free list is empty: under the pool mutex the eviction scan looks for
\* a victim; a victim leaves the page hash and goes to the free list, and
\* the caller takes it from there; without a victim the caller sleeps.
buf_LRU_scan_and_free_block(t) ==
    LET victims == {d \in Blocks :
                       /\ blocks[d].state = BUF_BLOCK_FILE_PAGE
                       /\ buf_flush_ready_for_replace(blocks[d])}
    IN  /\ bpc[t].op = "miss"
        /\ pool_mutex = NoThread
        /\ free = <<>>
        /\ IF victims # {}
           THEN \E d \in victims :
                    /\ page_hash' = page_hash_delete(page_hash, blocks[d].page)
                    /\ blocks' = [blocks EXCEPT ![d] = NotUsedBlock]
                    /\ free' = free_list_add(free, d)
                    /\ UNCHANGED bpc
           ELSE /\ bpc' = [bpc EXCEPT ![t].op = "sleep"]
                /\ UNCHANGED <<page_hash, blocks, free>>
        /\ UNCHANGED <<flush_list, pool_mutex, flush_list_mutex, lsn,
                       flush_batch, io_pc, mtr, pool_others>>

\* The sleep after a scan without a victim is over: the caller tries again.
buf_LRU_get_free_block_retry(t) ==
    /\ bpc[t].op = "sleep"
    /\ bpc' = [bpc EXCEPT ![t].op = "miss"]
    /\ UNCHANGED <<blocks, free, flush_list, page_hash, pool_mutex,
                   flush_list_mutex, lsn, flush_batch, io_pc, mtr, pool_others>>

\* ... and put into the state READY_FOR_USE; the mutex is released.
buf_LRU_get_free_block_ready(t) ==
    LET d == bpc[t].d
    IN  /\ bpc[t].op = "got_free"
        /\ blocks' = [blocks EXCEPT ![d].state = BUF_BLOCK_READY_FOR_USE]
        /\ pool_mutex' = NoThread
        /\ bpc' = [bpc EXCEPT ![t].op = IF bpc[t].page = 0
                                        THEN "mem_init" ELSE "init_read"]
        /\ UNCHANGED <<free, flush_list, page_hash, flush_list_mutex, lsn,
                       flush_batch, io_pc, mtr, pool_others>>

\* buf_block_alloc, the end: READY_FOR_USE => MEMORY.
buf_block_alloc_done(t) ==
    LET d == bpc[t].d
    IN  /\ bpc[t].op = "mem_init"
        /\ blocks' = [blocks EXCEPT ![d].state = BUF_BLOCK_MEMORY]
        /\ mtr' = [mtr EXCEPT ![t] = @ \cup {<<d, MEMORY_OBJECT>>}]
        /\ bpc' = [bpc EXCEPT ![t] = IdleOp]
        /\ UNCHANGED <<free, flush_list, page_hash, pool_mutex,
                       flush_list_mutex, lsn, flush_batch, io_pc, pool_others>>

\* buf_block_free of a block the thread allocated: under the pool mutex
\* MEMORY => NOT_USED ...
buf_block_free(t, d) ==
    /\ bpc[t].op = "idle"
    /\ <<d, MEMORY_OBJECT>> \in mtr[t]
    /\ pool_mutex = NoThread
    /\ pool_mutex' = t
    /\ blocks' = [blocks EXCEPT ![d] = NotUsedBlock]
    /\ mtr' = [mtr EXCEPT ![t] = @ \ {<<d, MEMORY_OBJECT>>}]
    /\ bpc' = [bpc EXCEPT ![t] = [op |-> "to_free", d |-> d, page |-> 0,
                                  latch |-> RW_NO_LATCH, n_free |-> 0]]
    /\ UNCHANGED <<free, flush_list, page_hash, flush_list_mutex, lsn,
                   flush_batch, io_pc, pool_others>>

\* Eviction of a file page: under the pool mutex a replaceable block is
\* taken out of the page hash, FILE_PAGE => NOT_USED ...
buf_LRU_free_page(t, d) ==
    /\ bpc[t].op = "idle"
    /\ pool_mutex = NoThread
    /\ blocks[d].state = BUF_BLOCK_FILE_PAGE
    /\ buf_flush_ready_for_replace(blocks[d])
    /\ pool_mutex' = t
    /\ page_hash' = page_hash_delete(page_hash, blocks[d].page)
    /\ blocks' = [blocks EXCEPT ![d] = NotUsedBlock]
    /\ bpc' = [bpc EXCEPT ![t] = [op |-> "to_free", d |-> d,
                                  page |-> blocks[d].page,
                                  latch |-> RW_NO_LATCH, n_free |-> 0]]
    /\ UNCHANGED <<free, flush_list, flush_list_mutex, lsn, flush_batch,
                   io_pc, mtr, pool_others>>

\* ... and the block is put on the free list; the mutex is released.
buf_LRU_block_free(t) ==
    /\ bpc[t].op = "to_free"
    /\ free' = free_list_add(free, bpc[t].d)
    /\ pool_mutex' = NoThread
    /\ bpc' = [bpc EXCEPT ![t] = IdleOp]
    /\ UNCHANGED <<blocks, flush_list, page_hash, flush_list_mutex, lsn,
                   flush_batch, io_pc, mtr, pool_others>>

\* Mutant of init_for_read_block: the latch is not taken for the read.
init_for_read_block_unlatched(b, p) ==
    [b EXCEPT !.page = p, !.io_fix = BUF_IO_READ]

\* What buf_page_init_for_read stores in the block: the page, the io_fix
\* flag BUF_IO_READ and a non-recursive exclusive lock on the frame.
init_for_read_block(b, p) ==
    [b EXCEPT !.page = p, !.io_fix = BUF_IO_READ, !.lock_x = IoHolder]

\* get, miss path, with the new block READY_FOR_USE: the hash is looked up
\* again under the pool mutex; when another thread has brought the page in
\* the block goes back to the free list and the caller looks the page up
\* anew; otherwise the block enters the hash with io_fix READ and its latch
\* is held exclusively for the read.
buf_page_init_for_read(t) ==
    LET d == bpc[t].d
        p == bpc[t].page
    IN  /\ bpc[t].op = "init_read"
        /\ pool_mutex = NoThread
        /\ IF page_hash[p] # 0
           THEN /\ blocks' = [blocks EXCEPT ![d] = NotUsedBlock]
                /\ free' = free_list_add(free, d)
                /\ bpc' = [bpc EXCEPT ![t] = IdleOp]
                /\ UNCHANGED page_hash
           ELSE /\ page_hash' = [page_hash EXCEPT ![p] = d]
                /\ blocks' = [blocks EXCEPT ![d] = init_for_read_block(@, p)]
                /\ bpc' = [bpc EXCEPT ![t].op = "read"]
                /\ UNCHANGED free
        /\ UNCHANGED <<flush_list, pool_mutex, flush_list_mutex, lsn,
                       flush_batch, io_pc, mtr, pool_others>>

\* get, miss path, the read is over.  Success: FILE_PAGE, io_fix NONE, the
\* latch goes to the caller in the mode it asked for, the page is pinned.
\* Failure (IoError, PageCorrupted): the block leaves the hash and goes
\* back to the free list.
buf_page_io_complete(t, ok) ==
    LET d == bpc[t].d
        p == bpc[t].page
        latch == bpc[t].latch
    IN  /\ bpc[t].op = "read"
        /\ IF ok
           THEN /\ blocks' = [blocks EXCEPT ![d] =
                     block_latch([@ EXCEPT !.state = BUF_BLOCK_FILE_PAGE,
                                           !.io_fix = BUF_IO_NONE,
                                           !.lock_x = NoThread,
                                           !.buf_fix_count = buf_block_fix(@)],
                                 latch, t)]
                /\ mtr' = [mtr EXCEPT ![t] = @ \cup {<<d, latch>>}]
                /\ UNCHANGED <<page_hash, free>>
           ELSE /\ pool_mutex = NoThread
                /\ page_hash' = page_hash_delete(page_hash, p)
                /\ blocks' = [blocks EXCEPT ![d] = NotUsedBlock]
                /\ free' = free_list_add(free, d)
                /\ UNCHANGED mtr
        /\ bpc' = [bpc EXCEPT ![t] = IdleOp]
        /\ UNCHANGED <<flush_list, pool_mutex, flush_list_mutex, lsn,
                       flush_batch, io_pc, pool_others>>

\* release(descriptor, latch): decrements the pin count, drops the latch.
buf_page_release(t, d, latch) ==
    /\ bpc[t].op = "idle"
    /\ <<d, latch>> \in mtr[t]
    /\ blocks' = [blocks EXCEPT ![d] =
                     block_unlatch([@ EXCEPT !.buf_fix_count = buf_block_unfix(@)],
                                   latch, t)]
    /\ mtr' = [mtr EXCEPT ![t] = @ \ {<<d, latch>>}]
    /\ UNCHANGED <<free, flush_list, page_hash, pool_mutex, flush_list_mutex,
                   lsn, flush_batch, io_pc, bpc, pool_others>>

\* The log sequence number the next modification gets.
NextLsn == IF lsn = 0 THEN LsnFirst ELSE lsn + LsnStep

\* First dirtying of a page by the holder of its x-latch: under the flush
\* list mutex the block is put at the head of the flush list ...
buf_flush_insert_into_flush_list(t, d, max_lsn) ==
    /\ bpc[t].op = "idle"
    /\ <<d, RW_X_LATCH>> \in mtr[t]
    /\ blocks[d].oldest_modification = 0
    /\ NextLsn <= max_lsn
    /\ flush_list_mutex = NoThread
    /\ flush_list_mutex' = t
    /\ flush_list' = flush_list_insert(flush_list, d)
    /\ bpc' = [bpc EXCEPT ![t] = [op |-> "dirty", d |-> d,
                                  page |-> blocks[d].page,
                                  latch |-> RW_X_LATCH, n_free |-> 0]]
    /\ UNCHANGED <<blocks, free, page_hash, pool_mutex, lsn, flush_batch,
                   io_pc, mtr, pool_others>>

\* ... and gets the newest LSN as its oldest_modification; the mutex is
\* released.
buf_flush_note_modification(t) ==
    LET d == bpc[t].d
    IN  /\ bpc[t].op = "dirty"
        /\ lsn' = NextLsn
        /\ blocks' = [blocks EXCEPT ![d].oldest_modification = NextLsn]
        /\ flush_list_mutex' = NoThread
        /\ bpc' = [bpc EXCEPT ![t] = IdleOp]
        /\ UNCHANGED <<free, flush_list, page_hash, pool_mutex, flush_batch,
                       io_pc, mtr, pool_others>>

\* Is the block ready to be written: no I/O on it, its latch not held
\* exclusively?
buf_flush_ready_for_flush(b) ==
    b.io_fix = BUF_IO_NONE /\ block_latch_free(b, RW_S_LATCH)

\* The start of the write of a block: io_fix WRITE, a shared latch for the
\* I/O.
buf_flush_page(b) ==
    block_latch([b EXCEPT !.io_fix = BUF_IO_WRITE], RW_S_LATCH, IoHolder)

\* A SINGLE_PAGE flush: a dirty block that is ready is written.
buf_flush_single_page(d) ==
    /\ flush_list_mutex = NoThread
    /\ d \in ListSet(flush_list)
    /\ buf_flush_ready_for_flush(blocks[d])
    /\ blocks' = [blocks EXCEPT ![d] = buf_flush_page(@)]
    /\ UNCHANGED <<free, flush_list, page_hash, pool_mutex, flush_list_mutex,
                   lsn, flush_batch, io_pc, bpc, mtr, pool_others>>

\* A flush batch starts at the tail of the flush list (the oldest page).
buf_flush_batch_start ==
    /\ flush_batch.hp = 0
    /\ flush_list_mutex = NoThread
    /\ flush_list # <<>>
    /\ flush_batch' = [hp |-> flush_list[Len(flush_list)], written |-> <<>>]
    /\ UNCHANGED <<blocks, free, flush_list, page_hash, pool_mutex,
                   flush_list_mutex, lsn, io_pc, bpc, mtr, pool_others>>

\* The batch looks at the block under its pointer: a block that is ready
\* (no I/O on it, its latch not held exclusively) is written, io_fix WRITE
\* with a shared latch for the I/O; the pointer moves one block towards
\* the head, and the batch is over beyond the head.
buf_flush_batch_step ==
    LET d == flush_batch.hp
        i == ListIndex(flush_list, d)
        ready == buf_flush_ready_for_flush(blocks[d])
    IN  /\ d # 0
        /\ flush_list_mutex = NoThread
        /\ blocks' = IF ready
                     THEN [blocks EXCEPT ![d] = buf_flush_page(@)]
                     ELSE blocks
        /\ flush_batch' =
              [hp |-> IF i > 1 THEN flush_list[i - 1] ELSE 0,
               written |-> IF ready
                           THEN Append(flush_batch.written,
                                       blocks[d].oldest_modification)
                           ELSE flush_batch.written]
        /\ UNCHANGED <<free, flush_list, page_hash, pool_mutex,
                       flush_list_mutex, lsn, io_pc, bpc, mtr, pool_others>>

\* Mutant of FlushHp_adjust: the pointer is left where it is.
FlushHp_adjust_not(hp, list, d) == hp

\* FlushHp::adjust(bpage), called by the remover before it unlinks bpage: a
\* pointer that is on bpage moves to the next block of the scan, the one
\* towards the head, or becomes NULL at the head.
FlushHp_adjust(hp, list, d) ==
    IF hp = d
    THEN LET i == ListIndex(list, d)
         IN  IF i > 1 THEN list[i - 1] ELSE 0
    ELSE hp

\* A write completes: under the flush list mutex the block leaves the
\* flush list, and a batch pointer that is on it moves on first ...
buf_flush_write_complete(d) ==
    /\ io_pc = 0
    /\ blocks[d].io_fix = BUF_IO_WRITE
    /\ flush_list_mutex = NoThread
    /\ flush_list_mutex' = IoHolder
    /\ flush_list' = ListRemove(flush_list, d)
    /\ io_pc' = d
    /\ flush_batch' = [flush_batch EXCEPT
                          !.hp = FlushHp_adjust(@, flush_list, d)]
    /\ UNCHANGED <<blocks, free, page_hash, pool_mutex, lsn, bpc, mtr,
                   pool_others>>

\* ... and oldest_modification becomes 0; the mutex, the I/O fix and the
\* shared latch of the write are released.
buf_flush_remove ==
    /\ io_pc # 0
    /\ blocks' = [blocks EXCEPT ![io_pc] =
                     block_unlatch([@ EXCEPT !.oldest_modification = 0,
                                             !.io_fix = BUF_IO_NONE],
                                   RW_S_LATCH, IoHolder)]
    /\ flush_list_mutex' = NoThread
    /\ io_pc' = 0
    /\ UNCHANGED <<free, flush_list, page_hash, pool_mutex, lsn, flush_batch,
                   bpc, mtr, pool_others>>

PoolThreadStep(t, pages, max_lsn) ==
    \/ \E p \in pages : \E latch \in Latches : buf_page_get_gen(t, p, latch)
    \/ buf_page_get_latch(t)
    \/ buf_block_alloc(t)
    \/ buf_LRU_get_free_block(t)
    \/ buf_LRU_get_free_block_ready(t)
    \/ buf_block_alloc_done(t)
    \/ \E d \in Blocks : buf_block_free(t, d)
    \/ \E d \in Blocks : buf_LRU_free_page(t, d)
    \/ buf_LRU_block_free(t)
    \/ buf_page_init_for_read(t)
    \/ \E ok \in BOOLEAN : buf_page_io_complete(t, ok)
    \/ \E d \in Blocks : \E latch \in Latches : buf_page_release(t, d, latch)
    \/ \E d \in Blocks : buf_flush_insert_into_flush_list(t, d, max_lsn)
    \/ buf_flush_note_modification(t)

\* The pages the threads of PoolSpec ask for.
PoolPages == 1 .. (n_pages - 1)

\* A pool whose last block holds a memory object for the whole run (it
\* belongs to no thread of the model); the other blocks are free.
PoolBusyInit ==
    /\ blocks = [d \in Blocks |->
                    IF d = buf_pool_n_blocks
                    THEN [NotUsedBlock EXCEPT !.state = BUF_BLOCK_MEMORY]
                    ELSE NotUsedBlock]
    /\ free = [i \in 1 .. (buf_pool_n_blocks - 1) |-> i]
    /\ flush_list = <<>>
    /\ page_hash = [p \in Pages |-> 0]
    /\ pool_mutex = NoThread
    /\ flush_list_mutex = NoThread
    /\ lsn = 0
    /\ flush_batch = NoBatch
    /\ io_pc = 0
    /\ bpc = [t \in Threads |-> IdleOp]
    /\ mtr = [t \in Threads |-> {}]

PoolSpecInit ==
    ArrInit /\ MonitorInit /\ MutexInit /\ RwInit /\ PoolBusyInit /\ TmpInit
        /\ CreateInit

PoolNext ==
    \/ \E t \in PoolThreads : PoolThreadStep(t, PoolPages, MaxLsn - LsnStep)
    \/ \E d \in Blocks : buf_flush_single_page(d)
    \/ \E d \in Blocks : buf_flush_write_complete(d)
    \/ buf_flush_remove

\* The buffer pool with its user threads, single page flushes and the I/O
\* completions.
PoolSpec == PoolSpecInit /\ [][PoolNext]_vars

\* The pages that are resident in FlushSpec.
FlushPages == {p \in Pages : p <= buf_pool_n_blocks}

\* A pool into which the pages of FlushPages have been read: block p holds
\* page p as a clean, unpinned file page; blocks beyond them are free.
FlushInit ==
    /\ blocks = [d \in Blocks |->
                    IF d \in FlushPages
                    THEN [NotUsedBlock EXCEPT !.state = BUF_BLOCK_FILE_PAGE,
                                              !.page = d]
                    ELSE NotUsedBlock]
    /\ free = SelectSeq([i \in 1 .. buf_pool_n_blocks |-> i],
                        LAMBDA d : d \notin FlushPages)
    /\ flush_list = <<>>
    /\ page_hash = [p \in Pages |-> IF p \in FlushPages THEN p ELSE 0]
    /\ pool_mutex = NoThread
    /\ flush_list_mutex = NoThread
    /\ lsn = 0
    /\ flush_batch = NoBatch
    /\ io_pc = 0
    /\ bpc = [t \in Threads |-> IdleOp]
    /\ mtr = [t \in Threads |-> {}]

FlushSpecInit ==
    ArrInit /\ MonitorInit /\ MutexInit /\ RwInit /\ FlushInit /\ TmpInit
        /\ CreateInit

\* A writer of FlushSpec: it gets resident pages with an x-latch, dirties
\* them and releases them.
FlushWriterStep(t) ==
    \/ \E p \in FlushPages : buf_page_get_gen(t, p, RW_X_LATCH)
    \/ buf_page_get_latch(t)
    \/ \E d \in Blocks : buf_page_release(t, d, RW_X_LATCH)
    \/ \E d \in Blocks : buf_flush_insert_into_flush_list(t, d, MaxLsn)
    \/ buf_flush_note_modification(t)

FlushNext ==
    \/ \E t \in PoolThreads : FlushWriterStep(t)
    \/ buf_flush_batch_start
    \/ buf_flush_batch_step
    \/ \E d \in Blocks : buf_flush_write_complete(d)
    \/ buf_flush_remove

\* Resident pages that are dirtied while flush batches scan the flush list
\* and their writes complete.
FlushSpec == FlushSpecInit /\ [][FlushNext]_vars

\* The threads that hold and request latches in DetectSpec.
DetectThreads == {ThreadA, ThreadB}

\* The entries rw_lock_add_debug_info can have put on a debug_list.
DebugInfos(types) ==
    [thread_id : DetectThreads, lock_type : types, pass : {0, 1}]

\* The debug_list of an rw-lock as its holders leave it: nobody; one or two
\* s-locks; an x-lock; a writer that waits for the readers to leave, beside
\* the s-lock of a reader or alone.
DebugLists ==
    {<<>>}
    \cup {<<x>> : x \in DebugInfos({RW_LOCK_SHARED, RW_LOCK_EX, RW_LOCK_WAIT_EX})}
    \cup {<<x, y>> : x \in DebugInfos({RW_LOCK_SHARED}),
                     y \in DebugInfos({RW_LOCK_SHARED, RW_LOCK_WAIT_EX})}
    \cup {<<x, y>> : x \in DebugInfos({RW_LOCK_WAIT_EX}),
                     y \in DebugInfos({RW_LOCK_SHARED})}

\* The lock word that goes with a debug_list.
DebugLockWord(list) ==
    LET n(types) == Cardinality({i \in 1 .. Len(list) : list[i].lock_type \in types})
    IN  X_LOCK_DECR - n({RW_LOCK_SHARED})
            - (IF n({RW_LOCK_EX, RW_LOCK_WAIT_EX}) > 0 THEN X_LOCK_DECR ELSE 0)

\* An empty wait array beside latches that are held: the mutex by a thread
\* or by none (thread_id is stored after the lock word is set and cleared
\* before it is reset, so the two need not agree), the rw-lock P1 as one of
\* DebugLists says.
DetectInit ==
    /\ cells = [a \in Arrs |-> [i \in Cells |-> FreeCell]]
    /\ n_reserved = [a \in Arrs |-> 0]
    /\ os_mutex = [a \in Arrs |-> NoThread]
    /\ count = 0
    /\ events = [e \in Events |-> os_event_create]
    /\ \E w \in {0, 1} : \E list \in DebugLists :
          /\ lock_word = [o \in Objects |->
                            IF o \in Mutexes THEN w
                            ELSE IF o = "P1" THEN DebugLockWord(list)
                            ELSE X_LOCK_DECR]
          /\ debug_list = [l \in RwLocks |-> IF l = "P1" THEN list ELSE <<>>]
    /\ thread_id \in [Mutexes -> DetectThreads \cup {ULINT_UNDEFINED}]
    /\ pc = [t \in Threads |-> "idle"]
    /\ t_arr = [t \in Threads |-> 0]
    /\ t_idx = [t \in Threads |-> 0]
    /\ sw_arr = 0
    /\ err = "none"
    /\ ExtInit

\* The requests of the threads of DetectSpec.
DetectRequests ==
    {r \in Requests : r.object \in {"M", "P1"}}

DetectThreadStep(t) ==
    \/ sync_array_get(t)
    \/ \E r \in DetectRequests :
          MayReserve(r) /\ sync_array_reserve_cell(t, r.object, r.type)
    \/ reserve_cell_tail(t)
    \/ sync_array_wait_event(t)

DetectNext ==
    \/ \E t \in DetectThreads : DetectThreadStep(t)
    \/ \E t \in Threads \ DetectThreads : sync_array_get(t)

\* Two threads that reserve cells for requests on held latches and enter
\* sync_array_wait_event, where the deadlock search runs; the other threads
\* only take their turn in sync_array_get, so that the two can come to wait
\* in one instance.
DetectSpec == DetectInit /\ [][DetectNext]_vars

\* ------------------------------------------------ callers of free_cell
\* A caller of sync_array_free_cell(arr, index) that holds no reservation:
\* the function takes the instance and the index as they are passed.
free_cell_caller(t, a, i) ==
    /\ err = "none"
    /\ pc[t] = "idle"
    /\ pc' = [pc EXCEPT ![t] = "reserved"]
    /\ t_arr' = [t_arr EXCEPT ![t] = a]
    /\ t_idx' = [t_idx EXCEPT ![t] = i]
    /\ UNCHANGED <<array_vars, count, events, latch_vars, ext_vars, sw_arr, err>>

FreeThreadStep(t) ==
    \/ sync_array_get(t)
    \/ \E r \in SpecRequests :
          MayReserve(r) /\ sync_array_reserve_cell(t, r.object, r.type)
    \/ reserve_cell_tail(t)
    \/ \E a \in Arrs, i \in Cells : free_cell_caller(t, a, i)
    \/ sync_array_free_cell(t)

FreeNext ==
    \/ FreeThreadStep(ThreadA)
    \/ \E r \in SpecRequests :
          signal_object(sync_cell_get_event([wait_object |-> r.object,
                                             request_type |-> r.type]))

\* The wait array with some threads blocked in it, and one thread that
\* reserves a cell and frees it, or calls sync_array_free_cell with any
\* instance and index: reserved cells (its own, and those of the blocked
\* threads) and free cells are freed.
FreeInit ==
    /\ WaitingThreads(SpecRequests)
    /\ count = 0

FreeSpec == FreeInit /\ [][FreeNext]_vars

\* ------------------------------------------ creation of the wait arrays
create_others == <<array_vars, count, events, latch_vars, pc, local_vars, sw_arr,
                   err, monitor_vars, mutex_vars, rw_vars, pool_vars, tmp_vars,
                   print_vars, auth_vars>>

\* sync_array_init(n_threads) with srv_sync_array_size = size: the three
\* ut_a of its head, then one sync_array_create(n_slots) per instance.
sync_array_init(n, size) ==
    /\ sync_wait_array = NoWaitArray
    /\ size > 0
    /\ n > 0
    /\ sync_wait_array' = sync_array_init_result(n, size)
    /\ UNCHANGED create_others

\* sync_array_close: the instances are freed, sync_wait_array = NULL.
sync_array_close ==
    /\ sync_wait_array # NoWaitArray
    /\ sync_wait_array' = NoWaitArray
    /\ UNCHANGED create_others

CreateNext ==
    \/ \E n \in 1 .. InitMaxThreads, size \in 1 .. InitMaxSize :
          sync_array_init(n, size)
    \/ sync_array_close

\* The server before sync_array_init; the wait arrays are created for every
\* number of threads and of instances, and closed again.
CreateSpecInit ==
    /\ ArrInit /\ MonitorInit /\ MutexInit /\ RwInit /\ PoolInit /\ TmpInit
    /\ sync_wait_array = NoWaitArray
    /\ walk = NoWalk
    /\ handshake = NoHandshake

CreateSpec == CreateSpecInit /\ [][CreateNext]_vars

\* ------------------------------------------- the search and reused cells
\* The threads of DetectSpec ask for an x-lock on P1; they may also give
\* their cell back without waiting (the latch was free at the last try) and
\* reserve again: a cell is reused by another thread.
RedetectRequests ==
    {r \in Requests : r.object = "P1" /\ r.type = RW_LOCK_EX}

RedetectNext ==
    \/ \E t \in Threads : sync_array_get(t)
    \/ \E t \in DetectThreads : \E r \in RedetectRequests :
          MayReserve(r) /\ sync_array_reserve_cell(t, r.object, r.type)
    \/ \E t \in DetectThreads : reserve_cell_tail(t)
    \/ \E t \in DetectThreads : sync_array_wait_event(t)
    \/ \E t \in DetectThreads : sync_array_free_cell(t)

\* The mutex is free and the rw-lock P1 has readers only, none of them by
\* a lock that was passed to another thread.
RedetectInit ==
    /\ DetectInit
    /\ lock_word["M"] = 0
    /\ thread_id["M"] = ULINT_UNDEFINED
    /\ \A k \in 1 .. Len(debug_list["P1"]) :
          /\ debug_list["P1"][k].lock_type = RW_LOCK_SHARED
          /\ debug_list["P1"][k].pass = 0

RedetectSpec == RedetectInit /\ [][RedetectNext]_vars

\* ------------------------------------------- the walk along the writers
print_others == <<array_vars, events, latch_vars, pc, local_vars, sw_arr, err,
                  monitor_vars, mutex_vars, rw_vars, pool_vars, tmp_vars,
                  create_vars, auth_vars>>

\* rw_lock_get_writer(lock) != RW_LOCK_NOT_LOCKED: the lock has a writer, or
\* a writer that waits for the readers to leave; writer_thread is its id.
rw_lock_writers(l) ==
    {debug_list[l][k].thread_id : k \in {k \in 1 .. Len(debug_list[l]) :
          debug_list[l][k].lock_type \in {RW_LOCK_EX, RW_LOCK_WAIT_EX}}}

\* sync_array_cell_print(file, cell, &reserver): *reserver after the call.
\* It is stored only for an rw-lock that has a writer.
sync_array_cell_print(cell, reserver) ==
    IF cell.request_type # SYNC_MUTEX /\ rw_lock_writers(cell.wait_object) # {}
    THEN CHOOSE w \in rw_lock_writers(cell.wait_object) : TRUE
    ELSE reserver

\* loop after a chained cell was printed: sync_array_print_long_waits_low has
\* loop++, sync_array_print_innodb has not.
print_loop_count(fn, loop) == IF fn = "long_waits" THEN loop + 1 ELSE loop

\* sync_array_print_innodb: arr = sync_array_get(), then the for loop.
sync_array_print_innodb ==
    /\ err = "none"
    /\ walk = NoWalk
    /\ count' = (count + 1) % sync_array_size
    /\ walk' = [NoWalk EXCEPT !.fn = "innodb", !.a = count', !.pc = "for"]
    /\ UNCHANGED print_others

\* The second for loop of sync_array_print_long_waits_low(arr), entered when
\* *noticed is set.
print_long_waits_walk(a) ==
    /\ err = "none"
    /\ walk = NoWalk
    /\ walk' = [NoWalk EXCEPT !.fn = "long_waits", !.a = a, !.pc = "for"]
    /\ UNCHANGED <<count, print_others>>

\* One pass of the for loop up to the while loop: cells that are free or not
\* waiting are skipped, a waiting cell is printed with reserver starting as
\* ULINT_UNDEFINED and loop as 0; after the last cell the function returns.
print_for_step ==
    LET a == walk.a
        i == walk.i
    IN  /\ walk.pc = "for"
        /\ walk' = IF i >= n_slots THEN NoWalk
                    ELSE IF i \notin long_wait_cells(a)
                    THEN [walk EXCEPT !.i = i + 1]
                    ELSE [walk EXCEPT
                             !.reserver = sync_array_cell_print(cells[a][i],
                                                                ULINT_UNDEFINED),
                             !.loop = 0,
                             !.pc = "while"]
        /\ UNCHANGED <<count, print_others>>

\* The test and one pass of the body of
\* while (reserver != ULINT_UNDEFINED): the cell of the writer thread is
\* looked up and, when it waits, printed, which gives the next reserver;
\* sync_array_print_long_waits_low clears reserver before the print and
\* counts the pass.  if (loop > 100) break.
print_while_step ==
    LET a == walk.a
        r == sync_array_find_thread(a, walk.reserver)
        waits == r # -1 /\ cells[a][r].waiting
        before == IF walk.fn = "long_waits" THEN ULINT_UNDEFINED
                  ELSE walk.reserver
        after == sync_array_cell_print(cells[a][r], before)
        reserver == IF waits /\ cells[a][r].thread # after THEN after
                    ELSE ULINT_UNDEFINED
        loop == IF waits THEN print_loop_count(walk.fn, walk.loop) ELSE walk.loop
    IN  /\ walk.pc = "while"
        /\ walk' = IF walk.reserver = ULINT_UNDEFINED \/ loop > 100
                    THEN [walk EXCEPT !.i = walk.i + 1, !.pc = "for",
                                      !.reserver = ULINT_UNDEFINED, !.loop = 0]
                    ELSE [walk EXCEPT !.reserver = reserver, !.loop = loop]
        /\ UNCHANGED <<count, print_others>>

\* The requests of the waiting threads of WalkSpec.
WalkRequests ==
    {r \in Requests : r.object \in RwLocks /\ r.type # RW_LOCK_SHARED}

\* The writer entry of an rw-lock: none, or one thread as writer or as a
\* writer waiting for the readers.
WriterLists ==
    {<<>>} \cup {<<[thread_id |-> t, lock_type |-> ty, pass |-> 0]>> :
                    t \in Threads, ty \in {RW_LOCK_EX, RW_LOCK_WAIT_EX}}

\* Threads blocked in their cells (a build without UNIV_SYNC_DEBUG looks for
\* no deadlock) beside rw-locks with and without writers.  A thread that
\* waits with RW_LOCK_WAIT_EX is the waiting writer of its lock, and a thread
\* does not wait for a lock it holds as writer.
WalkInit ==
    /\ WaitingCells(WalkRequests)
    /\ count = 0
    /\ debug_list \in [RwLocks -> WriterLists]
    /\ lock_word = [o \in Objects |->
                      IF o \in Mutexes THEN 0 ELSE DebugLockWord(debug_list[o])]
    /\ \A t \in Threads :
          pc[t] = "blocked" =>
              LET cell == cells[t_arr[t]][t_idx[t]]
                  list == debug_list[cell.wait_object]
              IN  IF cell.request_type = RW_LOCK_WAIT_EX
                  THEN list = <<[thread_id |-> t, lock_type |-> RW_LOCK_WAIT_EX,
                                 pass |-> 0]>>
                  ELSE IF list = <<>> THEN TRUE ELSE list[1].thread_id # t
    /\ thread_id = [m \in Mutexes |-> ULINT_UNDEFINED]
    /\ sw_arr = 0
    /\ err = "none"
    /\ ExtInit

WalkNext ==
    \/ sync_array_print_innodb
    \/ \E a \in Arrs : print_long_waits_walk(a)
    \/ print_for_step
    \/ print_while_step

\* The printing thread runs while the waiting threads stay blocked; a loop
\* that can go on does.
WalkSpec ==
    /\ WalkInit
    /\ [][WalkNext]_vars
    /\ WF_vars(print_for_step \/ print_while_step)

\* ------------------------------------------ the ed25519 authentication
\* What the authentication leaves alone.
auth_others == <<array_vars, count, events, latch_vars, pc, local_vars, sw_arr,
                 err, monitor_vars, mutex_vars, rw_vars, pool_vars, tmp_vars,
                 create_vars, print_vars>>

\* The key pairs, named by their public key, and the values of a nonce.
Keys == 1 .. n_keys
Nonces == 1 .. n_nonces

\* The account's auth string: its length and the public key its base64 text
\* decodes to, 0 when base64_decode does not give CRYPTO_PUBLICKEYBYTES bytes.
AuthStrings ==
    [len : {PASSWORD_LEN - 1, PASSWORD_LEN, PASSWORD_LEN_BUF}, pk : {0} \cup Keys]

\* A packet of NONCE_BYTES carrying a nonce, and the first CRYPTO_BYTES of
\* what crypto_sign(reply, pkt, NONCE_BYTES, passwd) makes: the signature of
\* the message m under the key of the password.
nonce_packet(n) == [len |-> NONCE_BYTES, body |-> n]
crypto_sign(m, passwd) == [key |-> passwd, msg |-> m]
signature_packet(sig) == [len |-> CRYPTO_BYTES, body |-> sig]

\* crypto_sign_open(out, &out_len, reply, sizeof(reply), pk) returns 0: reply
\* is the signature followed by the message, and the signature is the one of
\* this message under the key pair of pk.
crypto_sign_open(sig, m, pk) == sig.key = pk /\ sig.msg = m

\* Mutant of auth_string_length_ok: only a longer string is refused.
auth_string_length_at_most(len) == len <= PASSWORD_LEN

\* info->auth_string_length != PASSWORD_LEN is false.
auth_string_length_ok(len) == len = PASSWORD_LEN

\* What the peer of a connection may send instead: a packet of any length
\* with any content.
ClientPackets ==
    {[len |-> l, body |-> crypto_sign(m, k)] :
        l \in {CRYPTO_BYTES - 1, CRYPTO_BYTES}, m \in Nonces, k \in Keys}
ServerPackets ==
    {[len |-> l, body |-> n] : l \in {NONCE_BYTES, NONCE_BYTES + 1}, n \in Nonces}

\* auth(vio, info) up to its read_packet: the auth string is checked and
\* decoded, the nonce is drawn and sent; write_packet may fail.
auth_send ==
    /\ handshake.spc = "start"
    /\ IF ~ auth_string_length_ok(handshake.auth_string.len)
          \/ handshake.auth_string.pk = 0
       THEN handshake' = [handshake EXCEPT !.spc = "done",
                              !.sret = "CR_AUTH_USER_CREDENTIALS"]
       ELSE \E n \in Nonces, failed \in BOOLEAN :
              handshake' = [handshake EXCEPT
                  !.nonce = n,
                  !.slog = Append(@, [call |-> "write_packet",
                                      len |-> NONCE_BYTES, failed |-> failed]),
                  !.to_client = IF failed THEN @ ELSE nonce_packet(n),
                  !.spc = IF failed THEN "done" ELSE "read",
                  !.sret = IF failed THEN "CR_AUTH_HANDSHAKE" ELSE @]
    /\ UNCHANGED auth_others

\* auth(vio, info) from its read_packet on: the reply is read and verified
\* against the nonce that was sent.
auth_read ==
    /\ handshake.spc = "read"
    /\ handshake.to_server # NoPacket
    /\ LET pkt == handshake.to_server IN
       handshake' = [handshake EXCEPT
           !.to_server = NoPacket,
           !.slog = Append(@, [call |-> "read_packet", len |-> pkt.len,
                               failed |-> FALSE]),
           !.spc = "done",
           !.sret = IF pkt.len # CRYPTO_BYTES THEN "CR_AUTH_HANDSHAKE"
                    ELSE IF ~ crypto_sign_open(pkt.body, handshake.nonce,
                                               handshake.auth_string.pk)
                         THEN "CR_ERROR"
                         ELSE "CR_OK"]
    /\ UNCHANGED auth_others

\* do_auth(vio, mysql): the nonce is read, signed with the password, and the
\* signature is sent; write_packet may fail.
do_auth ==
    /\ handshake.cpc = "start"
    /\ handshake.to_client # NoPacket
    /\ LET pkt == handshake.to_client
           read == [call |-> "read_packet", len |-> pkt.len, failed |-> FALSE]
       IN
       IF pkt.len # NONCE_BYTES
       THEN handshake' = [handshake EXCEPT
                !.to_client = NoPacket, !.clog = Append(@, read),
                !.cpc = "done", !.cret = "CR_SERVER_HANDSHAKE_ERR"]
       ELSE \E failed \in BOOLEAN :
              handshake' = [handshake EXCEPT
                  !.to_client = NoPacket,
                  !.clog = Append(Append(@, read),
                                  [call |-> "write_packet",
                                   len |-> CRYPTO_BYTES, failed |-> failed]),
                  !.to_server =
                      IF failed THEN @
                      ELSE signature_packet(
                               crypto_sign(pkt.body, handshake.passwd)),
                  !.cpc = "done",
                  !.cret = IF failed THEN "CR_ERROR" ELSE "CR_OK"]
    /\ UNCHANGED auth_others

\* The other end of the connection is not this plugin's code: it sends
\* a packet of its own to the server, or to the client.
peer_write_to_server ==
    /\ handshake.spc = "read"
    /\ handshake.to_server = NoPacket
    /\ \E pkt \in ClientPackets :
           handshake' = [handshake EXCEPT !.to_server = pkt]
    /\ UNCHANGED auth_others

peer_write_to_client ==
    /\ handshake.cpc = "start"
    /\ handshake.spc = "start"
    /\ handshake.to_client = NoPacket
    /\ \E pkt \in ServerPackets :
           handshake' = [handshake EXCEPT !.to_client = pkt]
    /\ UNCHANGED auth_others

AuthNext ==
    \/ auth_send
    \/ auth_read
    \/ do_auth
    \/ peer_write_to_server
    \/ peer_write_to_client

\* A connection for an account with any auth string, by a client with any
\* password.
AuthInit ==
    /\ ArrInit /\ MonitorInit /\ MutexInit /\ RwInit /\ PoolInit /\ TmpInit
    /\ sync_wait_array = sync_array_init_result(n_threads, srv_sync_array_size)
    /\ walk = NoWalk
    /\ \E a \in AuthStrings, k \in Keys :
           handshake = [NoHandshake EXCEPT !.auth_string = a, !.passwd = k,
                                           !.spc = "start", !.cpc = "start"]

AuthSpec == AuthInit /\ [][AuthNext]_vars

\* ---------------------------------------------------- the scratch slots
\* What the scratch slot actions leave alone.
tmp_others == <<array_vars, count, events, latch_vars, pc, local_vars, sw_arr,
                err, monitor_vars, mutex_vars, rw_vars, pool_vars, create_vars,
                print_vars, auth_vars>>

\* Mutant of my_atomic_fas32_explicit: the old value is taken for 0.
my_atomic_fas32_blind(word, v) == [old |-> 0, new |-> v]

\* my_atomic_fas32_explicit: fetch and store, one atomic step; the old value
\* and the new value of the word.
my_atomic_fas32_explicit(word, v) == [old |-> word, new |-> v]

\* buf_tmp_buffer_t::acquire() by a thread that does not hold the slot:
\* whether the slot was acquired.
acquire(t, s) ==
    LET fas == my_atomic_fas32_explicit(reserved[s], 1)
    IN  /\ slot_ret[t][s] # "true"
        /\ reserved' = [reserved EXCEPT ![s] = fas.new]
        /\ slot_ret' = [slot_ret EXCEPT ![t][s] =
                           IF fas.old = 0 THEN "true" ELSE "false"]
        /\ UNCHANGED tmp_others

\* buf_tmp_buffer_t::release() by the thread that acquired the slot.
release(t, s) ==
    /\ slot_ret[t][s] = "true"
    /\ reserved' = [reserved EXCEPT ![s] = 0]
    /\ slot_ret' = [slot_ret EXCEPT ![t][s] = "none"]
    /\ UNCHANGED tmp_others

TmpNext ==
    \E t \in Threads : \E s \in TmpSlots : acquire(t, s) \/ release(t, s)

\* Threads that acquire and release the scratch slots in any order.
TmpSpec == Init /\ [][TmpNext]_vars

\* A thread that only reads pages: get with its miss path, which evicts a
\* page when the free list is empty, and release.
MissThreadStep(t) ==
    \/ \E p \in Pages : \E latch \in Latches : buf_page_get_gen(t, p, latch)
    \/ buf_page_get_latch(t)
    \/ buf_LRU_get_free_block(t)
    \/ buf_LRU_scan_and_free_block(t)
    \/ buf_LRU_get_free_block_retry(t)
    \/ buf_LRU_get_free_block_ready(t)
    \/ buf_page_init_for_read(t)
    \/ \E ok \in BOOLEAN : buf_page_io_complete(t, ok)
    \/ \E d \in Blocks : \E latch \in Latches : buf_page_release(t, d, latch)

MissNext == MissThreadStep(1)

\* One thread that reads more pages than the pool has blocks for; the
\* thread keeps taking steps.
MissSpec == PoolSpecInit /\ [][MissNext]_vars /\ WF_vars(MissNext)

\* ------------------------------------------------------------- claims
Reserved(a) == {i \in Cells : cells[a][i].wait_object # NULL}
OwnCell(t) == cells[t_arr[t]][t_idx[t]]

\* C1: in every wait-array instance whose mutex no thread holds, the number of
\* cells with wait_object != NULL equals n_reserved (sync_array_validate).
C1_ReservedCountIsNReserved ==
    \A a \in Arrs :
        os_mutex[a] = NoThread => Cardinality(Reserved(a)) = n_reserved[a]

\* C1 witness: an instance with a free mutex that holds a waiting cell next to
\* a cell that was reserved and freed before.
C1_Witness ==
    \E a \in Arrs : \E i, j \in Cells :
        /\ os_mutex[a] = NoThread
        /\ cells[a][i].wait_object # NULL /\ cells[a][i].waiting
        /\ cells[a][j].wait_object = NULL /\ cells[a][j].thread # NoThread

\* C2: sync_array_reserve_cell returns false exactly when every cell of the
\* instance is occupied at its scan, and otherwise returns true with an index
\* below n_cells that names a cell that was free.
C2_ReserveFailsIffFull ==
    [][\A t \in Threads :
          (pc[t] = "reserve" /\ pc'[t] # "reserve") =>
              LET a == t_arr[t]
                  full == \A i \in Cells : cells[a][i].wait_object # NULL
              IN  /\ full => pc'[t] = "nocell"
                  /\ ~full => /\ pc'[t] = "reserve_tail"
                              /\ t_idx'[t] \in Cells
                              /\ t_idx'[t] < n_slots
                              /\ cells[a][t_idx'[t]].wait_object = NULL]_vars

\* C2 witness: a call has returned false on an instance all of whose cells
\* are occupied.
C2_Witness ==
    \E t \in Threads :
        /\ pc[t] = "nocell"
        /\ \A i \in Cells : cells[t_arr[t]][i].wait_object # NULL

\* C3: a successful sync_array_reserve_cell(arr, O, T) took a free cell, which
\* then records O, T and waiting = FALSE, raised n_reserved by one and changed
\* no other cell; at its return the cell also carries the caller's thread id
\* and the generation of the reset event of (O, T), which is then not set.
C3_ReserveRecords ==
    [][\A t \in Threads :
          /\ (pc[t] = "reserve" /\ pc'[t] = "reserve_tail") =>
                LET a == t_arr[t]
                    i == t_idx'[t]
                IN  /\ cells[a][i].wait_object = NULL
                    /\ \E r \in Requests :
                          /\ cells'[a][i].wait_object = r.object
                          /\ cells'[a][i].request_type = r.type
                    /\ cells'[a][i].waiting = FALSE
                    /\ n_reserved' = [n_reserved EXCEPT ![a] = @ + 1]
                    /\ \A b \in Arrs : \A j \in Cells :
                          <<b, j>> # <<a, i>> => cells'[b][j] = cells[b][j]
          /\ (pc[t] = "reserve_tail" /\ pc'[t] = "reserved") =>
                LET a == t_arr[t]
                    i == t_idx[t]
                    e == IF cells[a][i].request_type = RW_LOCK_WAIT_EX
                         THEN <<cells[a][i].wait_object, "wait_ex_event">>
                         ELSE <<cells[a][i].wait_object, "event">>
                IN  /\ cells'[a][i] = [wait_object |-> cells[a][i].wait_object,
                                       request_type |-> cells[a][i].request_type,
                                       thread |-> t,
                                       waiting |-> FALSE,
                                       signal_count |-> events[e].signal_count,
                                       reservation_time |-> now]
                    /\ ~events'[e].is_set
                    /\ events'[e].signal_count = events[e].signal_count
                    /\ UNCHANGED n_reserved
                    /\ \A b \in Arrs : \A j \in Cells :
                          <<b, j>> # <<a, i>> => cells'[b][j] = cells[b][j]
          /\ (pc[t] = "reserved" /\ pc'[t] = "reserved") =>
                cells'[t_arr[t]][t_idx[t]] = cells[t_arr[t]][t_idx[t]]]_vars

\* C3 witness: a reservation has returned true on a cell another thread used
\* before, next to another reserved cell.
C3_Witness ==
    \E t \in Threads : \E u \in Threads \ {t} :
        /\ pc[t] = "reserved" /\ OwnCell(t).thread = t
        /\ pc[u] \in {"reserved", "blocked"} /\ t_arr[u] = t_arr[t]
        /\ n_reserved[t_arr[t]] = 2

\* C4: sync_array_wait_event marks the cell as waiting and, when the wait is
\* over, frees the cell itself: wait_object = NULL, waiting = FALSE, and
\* n_reserved goes down by one, once, over the whole call.
C4_WaitFreesCell ==
    [][\A t \in Threads :
          LET a == t_arr[t]
              i == t_idx[t]
          IN  /\ (pc[t] = "reserved" /\ pc'[t] = "blocked") =>
                    /\ cells'[a][i] = [cells[a][i] EXCEPT !.waiting = TRUE]
                    /\ UNCHANGED n_reserved
              /\ (pc[t] = "blocked" /\ pc'[t] = "wait_free") =>
                    UNCHANGED <<cells, n_reserved>>
              /\ (pc[t] = "wait_free" /\ pc'[t] # "wait_free") =>
                    /\ pc'[t] = "idle"
                    /\ cells'[a][i].wait_object = NULL
                    /\ cells'[a][i].waiting = FALSE
                    /\ n_reserved' = [n_reserved EXCEPT ![a] = @ - 1]]_vars

\* C4 witness: a wait is over and its cell, still marked waiting, is about to
\* be freed by sync_array_wait_event.
C4_Witness ==
    \E t \in Threads :
        /\ pc[t] = "wait_free"
        /\ OwnCell(t).waiting
        /\ os_mutex[t_arr[t]] = NoThread

\* C5: a thread blocked on its event inside sync_array_wait_event holds the
\* mutex of no instance, and the mutex of the instance it waits in is free
\* for the other threads.
C5_BlockedHoldsNoMutex ==
    \A t \in Threads :
        pc[t] = "blocked" =>
            /\ \A a \in Arrs : os_mutex[a] # t
            /\ os_mutex[t_arr[t]] = NoThread

\* C6: between the reset of sync_array_reserve_cell and the end of the wait,
\* a set of the cell's event ends the wait, and a wait that can end can still
\* end after any step of any thread: no later reset takes the wake-up back.
C6_NoLostWakeup ==
    [][\A t \in Threads :
          (pc[t] \in {"reserved", "blocked"} /\ pc'[t] \in {"reserved", "blocked"}) =>
              LET a == t_arr[t]
                  i == t_idx[t]
                  e == sync_cell_get_event(cells[a][i])
              IN  /\ (events'[e] # events[e] /\ events'[e].is_set)
                        => wait_event_done(cells[a][i])'
                  /\ wait_event_done(cells[a][i])
                        => wait_event_done(cells[a][i])']_vars

\* C6 witness: a blocked thread whose event was set and then reset by a later
\* reservation: only the generation in its cell tells it to wake up.
C6_Witness ==
    \E t \in Threads :
        /\ pc[t] = "blocked"
        /\ ~events[sync_cell_get_event(OwnCell(t))].is_set
        /\ events[sync_cell_get_event(OwnCell(t))].signal_count
               # OwnCell(t).signal_count

\* C10: threads that reserve and then call exactly one of sync_array_wait_event
\* and sync_array_free_cell never fail an assertion of sync_array_wait_event,
\* sync_array_free_cell or sync_array_validate.
C10_NoAssertionFails == err = "none"

\* C10 witness: one thread has freed its cell itself while another one waits
\* and a third holds a reservation in the same instance.
C10_Witness ==
    \E t, u, v \in Threads :
        /\ pc[t] = "idle" /\ pc[u] = "blocked" /\ pc[v] = "reserved"
        /\ t_arr[u] = t_arr[v]
        /\ \E a \in Arrs : \E i \in Cells :
              cells[a][i].wait_object = NULL /\ cells[a][i].thread = t

\* The release predicate of a request type as the claim C7 states it.
ReleasePredicate(type, w) ==
    \/ type = SYNC_MUTEX /\ w = 0
    \/ type = RW_LOCK_EX /\ w > 0
    \/ type = RW_LOCK_WAIT_EX /\ w = 0
    \/ type = RW_LOCK_SHARED /\ w > 0

CanWake(a) ==
    {i \in Reserved(a) :
        ReleasePredicate(cells[a][i].request_type, lock_word[cells[a][i].wait_object])}

\* C7: one visit of the sweep to an instance leaves the event of every
\* reserved cell whose release predicate holds set, changes no other event,
\* and the sweep goes on to the next instance, so that one call visits all.
C7_SweepSetsExactlyReleasable ==
    [][sw_arr' # sw_arr =>
          LET a == sw_arr
              woken == {sync_cell_get_event(cells[a][i]) : i \in CanWake(a)}
          IN  /\ \A e \in woken : events'[e].is_set
              /\ \A e \in Events \ woken : events'[e] = events[e]
              /\ sw_arr' = (a + 1) % sync_array_size
              /\ UNCHANGED <<cells, n_reserved>>]_vars

\* C7 witness: after a visit, an instance holds a cell whose predicate holds,
\* with its event set, next to a cell whose predicate does not hold, with its
\* event not set.
C7_Witness ==
    \E a \in Arrs : \E i \in CanWake(a) : \E j \in Reserved(a) \ CanWake(a) :
        /\ sw_arr = (a + 1) % sync_array_size
        /\ events[sync_cell_get_event(cells[a][i])].is_set
        /\ events[sync_cell_get_event(cells[a][i])].signal_count = 2
        /\ ~events[sync_cell_get_event(cells[a][j])].is_set

\* C8: under FairSpec a thread blocked in sync_array_wait_event on an object
\* whose release predicate holds eventually returns from the wait with its
\* cell freed (it is back outside the wait array), unless the predicate
\* stops holding.
C8_BlockedEventuallyReturns ==
    \A t \in Threads :
        (pc[t] = "blocked")
            ~> \/ pc[t] = "idle"
               \/ ~ReleasePredicate(OwnCell(t).request_type,
                                    lock_word["M"])

BothBlocked == pc[ThreadA] = "blocked" /\ pc[ThreadB] = "blocked"

\* C9 as stated: ThreadA holds an x-lock on P1 and waits for an s-lock on P2,
\* ThreadB holds an s-lock on P2 and waits for an x-lock on P1; once both have
\* entered sync_array_wait_event, DEADLOCK has been reported, whichever
\* instances the two threads wait in.
C9_SharedRequestCycleReported ==
    (BothBlocked /\ OwnCell(ThreadA).request_type = RW_LOCK_SHARED)
        => err = "DEADLOCK"

\* C9 amended: when ThreadA waits for an x-lock on P2 (the s-lock of ThreadB
\* blocks it) and both threads wait in the same instance, with no other
\* reserved cell of that instance carrying the id of one of them, the second
\* to enter sync_array_wait_event has reported DEADLOCK; and DEADLOCK is
\* reported in this case only.
C9_ExclusiveRequestCycleReportedInOneInstance ==
    LET cycle == /\ BothBlocked
                 /\ OwnCell(ThreadA).request_type = RW_LOCK_EX
                 /\ t_arr[ThreadA] = t_arr[ThreadB]
                 /\ \A i \in Reserved(t_arr[ThreadA]) :
                        cells[t_arr[ThreadA]][i].thread \in {ThreadA, ThreadB}
                            => i \in {t_idx[ThreadA], t_idx[ThreadB]}
    IN  cycle <=> err = "DEADLOCK"

\* C9 witness: both threads wait in one instance, ThreadA for an x-lock, and
\* DEADLOCK has been reported.
C9_Witness ==
    /\ BothBlocked
    /\ t_arr[ThreadA] = t_arr[ThreadB]
    /\ OwnCell(ThreadA).request_type = RW_LOCK_EX
    /\ OwnCell(ThreadB).request_type = RW_LOCK_EX
    /\ err = "DEADLOCK"

\* now - reservation_time of cell i of instance a
Age(a, i) == now - cells[a][i].reservation_time

\* C11 as stated: a visit of the long-wait monitor to an instance reports
\* fatal exactly when the age of some reserved cell of the instance exceeds
\* srv_fatal_semaphore_wait_threshold (or an instance visited before in the
\* call was fatal), and prints the long-wait warning for exactly the reserved
\* cells whose age exceeds the warn threshold.
C11_MonitorLooksAtReservedCells ==
    [][long_waits'.i # long_waits.i =>
          LET a == long_waits.i
              before == a # 0 /\ long_waits.fatal
          IN  /\ long_waits'.fatal <=>
                    \/ before
                    \/ \E i \in Reserved(a) :
                           Age(a, i) > srv_fatal_semaphore_wait_threshold
              /\ long_waits'.warned =
                    {i \in Reserved(a) : Age(a, i) > SYNC_ARRAY_TIMEOUT}]_vars

\* C11 amended: the monitor looks at the reserved cells that are marked as
\* waiting only, and at none while the fatal threshold is raised above
\* SRV_SEMAPHORE_WAIT_EXTENSION; once a long wait was noticed in the call it
\* prints every waiting cell of the instance.
C11_MonitorLooksAtWaitingCells ==
    [][long_waits'.i # long_waits.i =>
          LET a == long_waits.i
              before == a # 0 /\ long_waits.fatal
              noticed_before == a # 0 /\ long_waits.noticed
              active == ~(srv_fatal_semaphore_wait_threshold
                              > SRV_SEMAPHORE_WAIT_EXTENSION)
              waiting == {i \in Reserved(a) : cells[a][i].waiting}
              old == {i \in waiting : Age(a, i) > SYNC_ARRAY_TIMEOUT}
          IN  /\ long_waits'.fatal <=>
                    \/ before
                    \/ /\ active
                       /\ \E i \in waiting :
                              Age(a, i) > srv_fatal_semaphore_wait_threshold
              /\ long_waits'.warned = IF active THEN old ELSE {}
              /\ long_waits'.noticed <=> (noticed_before \/ (active /\ old # {}))
              /\ long_waits'.printed =
                    IF active /\ long_waits'.noticed THEN waiting ELSE {}]_vars

\* C11 witness: the monitor has visited an instance with a waiting cell older
\* than the fatal threshold and a waiting cell that is not older than the
\* warn threshold: fatal, one warning, both printed.
C11_Witness ==
    \E a \in Arrs : \E i, j \in Reserved(a) :
        /\ long_waits.i = (a + 1) % sync_array_size
        /\ cells[a][i].waiting /\ cells[a][j].waiting
        /\ Age(a, i) > srv_fatal_semaphore_wait_threshold
        /\ Age(a, j) <= SYNC_ARRAY_TIMEOUT
        /\ long_waits.fatal
        /\ long_waits.warned = {i}
        /\ long_waits.printed = {i, j}

\* C12: at most one thread holds the mutex M at a time.
C12_MutexMutualExclusion ==
    Cardinality({t \in Threads : mpc[t] = "in"}) <= 1

\* C12 witness: a thread holds M while another one, which went through the
\* slow path, is blocked in the wait array on M.
C12_Witness ==
    \E t, u \in Threads :
        /\ mpc[t] = "in"
        /\ mpc[u] = "wait" /\ pc[u] = "blocked"
        /\ waiters = 1

\* C13: a thread blocked in the slow path of M while M is free does not stay
\* blocked: the unlock that freed M saw waiters and set the event, or the
\* re-check would have seen the lock word 0.
C13_NoLostMutexWakeup ==
    \A t \in Threads :
        (pc[t] = "blocked" /\ lock_word["M"] = 0) ~> (pc[t] # "blocked")

\* C13 witness: a waiter is blocked on M, M is free and the unlocking thread
\* has set the event.
C13_Witness ==
    \E t \in Threads :
        /\ mpc[t] = "wait" /\ pc[t] = "blocked"
        /\ lock_word["M"] = 0
        /\ events[MutexEvent].is_set

\* The threads that hold the rw-lock P1 shared, and exclusively.
Readers == {t \in Threads : rpc[t] = "s"}
Writers == {t \in Threads : rpc[t] = "x"}

\* The first half of C14: a writer holds the rw-lock alone.
WriterExcludes ==
    Writers # {} => Readers = {} /\ Cardinality(Writers) = 1

\* The second half of C14: a lock_word strictly between 0 and X_LOCK_DECR
\* counts the readers, and there is no writer.
LockWordCountsReaders ==
    (0 < lock_word["P1"] /\ lock_word["P1"] < X_LOCK_DECR) =>
        /\ Cardinality(Readers) = X_LOCK_DECR - lock_word["P1"]
        /\ Writers = {}

\* C14: the rw-lock never admits a writer together with anyone else, and a
\* lock_word in (0, MAX_READERS) means exactly MAX_READERS - lock_word
\* readers and no writer.
C14_WriterAloneAndWordCountsReaders ==
    WriterExcludes /\ LockWordCountsReaders

\* C15: while a thread holds a page it got with RW_X_LATCH, the latch of the
\* block is its own and nobody else, user thread or I/O, holds a latch on
\* the block, shared or exclusive.
C15_ExclusiveGetExcludesOthers ==
    \A t \in Threads : \A d \in Blocks :
        <<d, RW_X_LATCH>> \in mtr[t] =>
            /\ blocks[d].lock_x = t
            /\ blocks[d].lock_s = {}
            /\ \A u \in Threads \ {t} :
                  /\ <<d, RW_S_LATCH>> \notin mtr[u]
                  /\ <<d, RW_X_LATCH>> \notin mtr[u]

\* C15 witness: a thread holds a page exclusively while another thread,
\* which has pinned the same block, waits for its latch.
C15_Witness ==
    \E t, u \in Threads : \E d \in Blocks :
        /\ t # u
        /\ <<d, RW_X_LATCH>> \in mtr[t]
        /\ bpc[u].op = "latch" /\ bpc[u].d = d /\ bpc[u].latch # RW_NO_LATCH

\* The gets of block d that have pinned it and are not yet released: the
\* threads that hold it and those that have pinned it and wait for its latch.
OutstandingGets(d) ==
    {t \in Threads : d \in Fixed(t)}
        \cup {t \in Threads : bpc[t].op = "latch" /\ bpc[t].d = d}

\* C16: the bufferfix count of a block is the number of gets not yet matched
\* by a release (a get and its release leave it as it was, each unmatched
\* get is one pin), and it is never negative.
C16_PinCountIsUnmatchedGets ==
    \A d \in Blocks :
        /\ blocks[d].buf_fix_count = Cardinality(OutstandingGets(d))
        /\ blocks[d].buf_fix_count >= 0

\* C16 witness: two threads hold the same block, which carries two pins,
\* while another block that was got and released carries none.
C16_Witness ==
    \E d, e \in Blocks :
        /\ d # e
        /\ Cardinality({t \in Threads : d \in Fixed(t)}) = 2
        /\ blocks[d].buf_fix_count = 2
        /\ blocks[e].state = BUF_BLOCK_FILE_PAGE
        /\ blocks[e].buf_fix_count = 0

\* The state transitions of the comment "State transitions" of buf0buf.h.
ListedTransitions ==
    {<<BUF_BLOCK_NOT_USED, BUF_BLOCK_READY_FOR_USE>>,
     <<BUF_BLOCK_READY_FOR_USE, BUF_BLOCK_MEMORY>>,
     <<BUF_BLOCK_READY_FOR_USE, BUF_BLOCK_FILE_PAGE>>,
     <<BUF_BLOCK_MEMORY, BUF_BLOCK_NOT_USED>>,
     <<BUF_BLOCK_FILE_PAGE, BUF_BLOCK_NOT_USED>>}

\* A step takes block d from FILE_PAGE to NOT_USED only when it was not
\* pinned, not I/O-fixed and clean.
FilePageFreedOnlyWhenReplaceable(d) ==
    (blocks[d].state = BUF_BLOCK_FILE_PAGE
     /\ blocks'[d].state = BUF_BLOCK_NOT_USED) =>
        /\ blocks[d].buf_fix_count = 0
        /\ blocks[d].oldest_modification = 0
        /\ blocks[d].io_fix = BUF_IO_NONE

\* C17 as stated: every change of state of a block is one of the listed
\* transitions, FILE_PAGE => NOT_USED only for a block that is not pinned,
\* clean and not I/O-fixed, and no block that is pinned, dirty or I/O-fixed
\* becomes NOT_USED.
C17_OnlyListedTransitions ==
    [][\A d \in Blocks :
          /\ blocks'[d].state # blocks[d].state =>
                <<blocks[d].state, blocks'[d].state>> \in ListedTransitions
          /\ FilePageFreedOnlyWhenReplaceable(d)
          /\ (blocks[d].state # BUF_BLOCK_NOT_USED
              /\ blocks'[d].state = BUF_BLOCK_NOT_USED) =>
                buf_flush_ready_for_replace(blocks[d])]_vars

\* C17 amended: besides the listed transitions a block allocated for a read
\* goes from READY_FOR_USE back to NOT_USED when the read fails or another
\* thread brought the page in; a file page that is pinned, dirty or
\* I/O-fixed is never freed or evicted.
C17_ListedTransitionsAndReadGivenUp ==
    [][\A d \in Blocks :
          /\ blocks'[d].state # blocks[d].state =>
                <<blocks[d].state, blocks'[d].state>> \in
                    ListedTransitions
                    \cup {<<BUF_BLOCK_READY_FOR_USE, BUF_BLOCK_NOT_USED>>}
          /\ (blocks[d].state = BUF_BLOCK_READY_FOR_USE
              /\ blocks'[d].state = BUF_BLOCK_NOT_USED) =>
                \E t \in Threads :
                    /\ bpc[t].d = d
                    /\ bpc[t].op \in {"init_read", "read"}
                    /\ bpc'[t] = IdleOp
          /\ FilePageFreedOnlyWhenReplaceable(d)]_vars

\* C17 witness: a file page has just been evicted (its block is NOT_USED,
\* on its way to the free list) while the other file page, which is dirty,
\* stays.
C17_Witness ==
    \E t \in Threads : \E e \in Blocks :
        /\ bpc[t].op = "to_free" /\ bpc[t].page # 0
        /\ blocks[bpc[t].d].state = BUF_BLOCK_NOT_USED
        /\ blocks[e].state = BUF_BLOCK_FILE_PAGE
        /\ blocks[e].oldest_modification > 0

\* C18: whenever the pool mutex is free, a block is on the free list if and
\* only if its state is NOT_USED.
C18_FreeListIffNotUsed ==
    pool_mutex = NoThread =>
        \A d \in Blocks :
            (d \in ListSet(free)) <=> (blocks[d].state = BUF_BLOCK_NOT_USED)

\* C18 witness: a quiescent point at which block 1, taken from the free list
\* before block 2, is back on the free list while block 2 holds a file page.
C18_Witness ==
    /\ pool_mutex = NoThread
    /\ free = <<1>>
    /\ blocks[1].state = BUF_BLOCK_NOT_USED
    /\ blocks[2].state = BUF_BLOCK_FILE_PAGE

\* C19: whenever the flush list mutex is free, a block is on the flush list
\* if and only if its oldest_modification is above 0; and the step that
\* completes a write (io_fix from WRITE to NONE) leaves the block with
\* oldest_modification 0 and off the flush list.
C19_FlushListIffDirty ==
    /\ [](flush_list_mutex = NoThread =>
            \A d \in Blocks :
                (d \in ListSet(flush_list))
                    <=> (blocks[d].oldest_modification > 0))
    /\ [][\A d \in Blocks :
            (blocks[d].io_fix = BUF_IO_WRITE
             /\ blocks'[d].io_fix = BUF_IO_NONE) =>
                /\ blocks'[d].oldest_modification = 0
                /\ d \notin ListSet(flush_list')]_vars

\* C19 witness: two pages were dirtied (LSN 100 and 150); the write of the
\* younger one is complete, it is clean and off the flush list, while the
\* older one is still dirty and on it.
C19_Witness ==
    \E d, e \in Blocks :
        /\ flush_list_mutex = NoThread
        /\ io_pc = 0
        /\ lsn = LsnFirst + LsnStep
        /\ blocks[d].state = BUF_BLOCK_FILE_PAGE
        /\ blocks[d].oldest_modification = 0
        /\ blocks[e].oldest_modification = LsnFirst
        /\ flush_list = <<e>>

\* The oldest_modification values along the flush list, head first.
FlushListLsns ==
    [i \in 1 .. Len(flush_list) |-> blocks[flush_list[i]].oldest_modification]

NonIncreasing(s) == \A i, j \in 1 .. Len(s) : i < j => s[i] >= s[j]
Ascending(s) == \A i, j \in 1 .. Len(s) : i < j => s[i] < s[j]

\* C20: whenever the flush list mutex is free, oldest_modification does not
\* increase along the flush list from head to tail, and the pages a flush
\* batch has written, scanning from the tail, are in ascending order of
\* oldest_modification.
C20_FlushListOrderedBatchAscending ==
    /\ flush_list_mutex = NoThread => NonIncreasing(FlushListLsns)
    /\ Ascending(flush_batch.written)

\* C20 witness: three pages were dirtied at LSN 100, 150 and 200 and one
\* batch wrote them in that order.
C20_Witness ==
    flush_batch.written = <<LsnFirst, LsnFirst + LsnStep, LsnFirst + 2 * LsnStep>>

\* The blocks that can be reached through the page hash.
Hashed == {page_hash[p] : p \in Pages} \ {0}

\* C21: a block is in the page hash if and only if it holds a file page
\* (the model has no compressed-only pages and no watch sentinels); a block
\* that is NOT_USED, READY_FOR_USE or MEMORY is never in the page hash, the
\* miss path of get included.
C21_HashedIffFilePage ==
    \A d \in Blocks :
        (d \in Hashed) <=> (blocks[d].state = BUF_BLOCK_FILE_PAGE)

\* The step of thread t in which its read of a missing page fails.
ReadFails(t) ==
    /\ bpc[t].op = "read"
    /\ bpc'[t].op = "idle"
    /\ blocks'[bpc[t].d].state # BUF_BLOCK_FILE_PAGE

\* After a failed read the page is not in the hash and the block of the
\* read is NOT_USED, on the free list, neither latched nor pinned nor
\* I/O-fixed.
ReadFailureCleansUp(t) ==
    ReadFails(t) =>
        /\ page_hash'[bpc[t].page] = 0
        /\ bpc[t].d \notin {page_hash'[p] : p \in Pages}
        /\ blocks'[bpc[t].d] = NotUsedBlock
        /\ bpc[t].d \in ListSet(free')
        /\ \A d \in Blocks :
              blocks'[d].state # BUF_BLOCK_READY_FOR_USE
              /\ blocks'[d].io_fix # BUF_IO_READ

\* C22 as stated: when a get on a missing page fails, the block of the read
\* is unlinked and freed, nothing is left in an intermediate state, and
\* the free list is as long as it was before the call.
C22_FailedReadRestoresFreeLength ==
    [][\A t \in Threads :
          /\ ReadFailureCleansUp(t)
          /\ ReadFails(t) => Len(free') = bpc[t].n_free]_vars

\* C22 amended: ... and the free list is as long as it was before the call
\* when the call found a block on it, and holds one block when it was empty
\* and the call evicted a page to get its block.
C22_FailedReadReturnsBlock ==
    [][\A t \in Threads :
          /\ ReadFailureCleansUp(t)
          /\ ReadFails(t) =>
                Len(free') = IF bpc[t].n_free > 0 THEN bpc[t].n_free ELSE 1]_vars

\* C22 witness: with pages in blocks 1 and 2 a get evicted the page of
\* block 1 for its read and the read failed: block 1 is back on the free
\* list, NOT_USED, and only the page of block 2 is in the hash.
C22_Witness ==
    /\ bpc[1] = IdleOp
    /\ free = <<1>>
    /\ blocks[1] = NotUsedBlock
    /\ blocks[2].state = BUF_BLOCK_FILE_PAGE
    /\ Hashed = {2}

\* C23: a get that misses does not stay in the allocation of its block for
\* ever, whatever is pinned: it leaves the retry loop.
C23_MissLeavesAllocation ==
    \A t \in Threads :
        (bpc[t].op = "miss") ~> (bpc[t].op \notin {"miss", "sleep"})

\* The threads that hold scratch slot s: their acquire() returned true and
\* they have not released it.
SlotHolders(s) == {t \in Threads : slot_ret[t][s] = "true"}

\* C24: a scratch slot has at most one holder, and is reserved exactly while
\* it has one; an acquire() on a slot that another thread holds returns
\* false, and an acquire() on a slot that nobody holds (none yet, or after
\* release()) returns true.
C24_ScratchSlotOneHolder ==
    /\ [](\A s \in TmpSlots :
            /\ Cardinality(SlotHolders(s)) <= 1
            /\ (reserved[s] = 1) <=> (SlotHolders(s) # {}))
    /\ [][\A s \in TmpSlots : \A t \in Threads :
            /\ (SlotHolders(s) \ {t} # {} /\ slot_ret'[t][s] # slot_ret[t][s])
                  => slot_ret'[t][s] = "false"
            /\ (SlotHolders(s) = {} /\ slot_ret'[t][s] # slot_ret[t][s])
                  => slot_ret'[t][s] = "true"]_vars

\* C24 witness: thread 1 holds slot 1, acquire() of thread 2 on it returned
\* false, and thread 3, whose acquire() on slot 2 had returned false while
\* thread 2 held it, has got slot 2 after the release.
C24_Witness ==
    /\ slot_ret[1][1] = "true"
    /\ slot_ret[2][1] = "false"
    /\ slot_ret[3][2] = "true"
    /\ slot_ret[2][2] = "none"
    /\ slot_ret[1][2] = "false"

\* The holders a waiting cell leads to, as <<thread, pass>>: the owner of
\* the mutex when lock_word != 0; of the holders of an rw-lock, with edges
\*   "any_holder"    every one,
\*   "other_threads" for an s-lock request the (waiting) writers, for a
\*                   (wait) x-lock request the holders of other threads,
\*   "any_reader"    as "other_threads", and for a (wait) x-lock request
\*                   also the s-locks of the requesting thread itself.
Holders(a, c, edges) ==
    LET cell == cells[a][c]
        obj == cell.wait_object
    IN  IF cell.request_type = SYNC_MUTEX
        THEN IF lock_word[obj] # 0 THEN {<<thread_id[obj], 0>>} ELSE {}
        ELSE LET held == {debug_list[obj][i] : i \in 1 .. Len(debug_list[obj])}
                 follow(e) ==
                    IF edges = "any_holder" THEN TRUE
                    ELSE IF cell.request_type = RW_LOCK_SHARED
                    THEN e.lock_type \in {RW_LOCK_EX, RW_LOCK_WAIT_EX}
                    ELSE \/ e.thread_id # cell.thread
                         \/ edges = "any_reader" /\ e.lock_type = RW_LOCK_SHARED
             IN  {<<e.thread_id, e.pass>> : e \in {x \in held : follow(x)}}

\* The cells the search goes to from cell c: none when c is not waiting;
\* else the cells of the holders with pass 0.
NextCells(a, c, edges) ==
    IF ~cells[a][c].waiting THEN {}
    ELSE {sync_array_find_thread(a, h[1]) :
             h \in {x \in Holders(a, c, edges) : x[2] = 0}} \ {0 - 1}

RECURSIVE CellsReached(_, _, _, _)
\* The cells reached from the cells of S in at most n further steps.
CellsReached(a, S, n, edges) ==
    IF n = 0 THEN S
    ELSE CellsReached(a, S \cup UNION {NextCells(a, c, edges) : c \in S},
                      n - 1, edges)

\* Is there a chain from the start cell back to the start cell?
Cycle(a, start, edges) ==
    start \in CellsReached(a, NextCells(a, start, edges), n_slots, edges)

\* The step in which thread t enters its wait and the deadlock search runs
\* from its cell, and the search stays within the depth it may have.
DetectionBy(t) ==
    /\ pc[t] = "reserved"
    /\ pc'[t] = "blocked"
    /\ err' \in {"none", "DEADLOCK"}

\* C27 as stated: the search reports a deadlock exactly when the edges of
\* the claim lead from the start cell back to it; there an x-lock request
\* goes to the holders, readers or writers, of other threads only.
C27_EdgesToOtherThreadsOnly ==
    [][\A t \in Threads :
          DetectionBy(t) =>
              ((err' = "DEADLOCK") <=> Cycle(t_arr[t], t_idx[t], "other_threads")')]_vars

\* C27 amended: as stated, but a (wait) x-lock request also goes to every
\* reader, the requesting thread's own s-lock included.
C27_EdgesToReadersOfAnyThread ==
    [][\A t \in Threads :
          DetectionBy(t) =>
              ((err' = "DEADLOCK") <=> Cycle(t_arr[t], t_idx[t], "any_reader")')]_vars

\* C27 witness: ThreadA, which holds an s-lock on P1 with pass 0, waits for
\* the readers of P1 to leave (WAIT_EX), and a deadlock has been reported.
C27_Witness ==
    /\ err = "DEADLOCK"
    /\ pc[ThreadA] = "blocked"
    /\ pc[ThreadB] = "idle"
    /\ OwnCell(ThreadA).request_type = RW_LOCK_WAIT_EX
    /\ OwnCell(ThreadA).wait_object = "P1"
    /\ \E i \in 1 .. Len(debug_list["P1"]) :
          debug_list["P1"][i] = [thread_id |-> ThreadA,
                                 lock_type |-> RW_LOCK_SHARED, pass |-> 0]

\* C28: the search started at a cell reports a deadlock only if there is a
\* chain of reserved cells from the start cell back to it in which every
\* cell is waiting, for an object that the thread of the next cell holds
\* with pass 0.
C28_NoFalseCycle ==
    [][\A t \in Threads :
          (pc[t] = "reserved" /\ pc'[t] = "blocked" /\ err' = "DEADLOCK")
              => Cycle(t_arr[t], t_idx[t], "any_holder")']_vars

\* C28 witness: no deadlock is reported although ThreadA waits for the mutex
\* that ThreadB owns and ThreadB, in the same instance, waits for P1, which
\* ThreadA holds exclusively, but with pass 1.
C28_Witness ==
    /\ err = "none"
    /\ BothBlocked
    /\ t_arr[ThreadA] = t_arr[ThreadB]
    /\ OwnCell(ThreadA).wait_object = "M"
    /\ lock_word["M"] = 1
    /\ thread_id["M"] = ThreadB
    /\ OwnCell(ThreadB).wait_object = "P1"
    /\ OwnCell(ThreadB).request_type = RW_LOCK_SHARED
    /\ debug_list["P1"] = <<[thread_id |-> ThreadA, lock_type |-> RW_LOCK_EX,
                            pass |-> 1]>>

\* C29: sync_array_free_cell(arr, i) on a reserved cell sets wait_object =
\* NULL, waiting = FALSE and signal_count = 0, takes exactly one from
\* n_reserved of arr and leaves every other cell and every other instance's
\* n_reserved as they were; it completes on reserved cells only, and on a cell
\* that is already free it fails ut_a(cell->wait_object != NULL) with
\* n_reserved unchanged.
FreeCellDone(t) == pc[t] \in {"reserved", "wait_free"} /\ pc'[t] = "idle"

FreeCellFrame(a, i) ==
    /\ cells[a][i].wait_object # NULL
    /\ cells'[a][i].wait_object = NULL
    /\ cells'[a][i].waiting = FALSE
    /\ cells'[a][i].signal_count = 0
    /\ n_reserved'[a] = n_reserved[a] - 1
    /\ \A b \in Arrs : b # a => n_reserved'[b] = n_reserved[b]
    /\ \A b \in Arrs, j \in Cells : <<b, j>> # <<a, i>> => cells'[b][j] = cells[b][j]

FreeCellAssertion == "free_cell: ut_a(cell->wait_object != NULL)"

C29_FreeCellFrame ==
    [][/\ \A t \in Threads : FreeCellDone(t) => FreeCellFrame(t_arr[t], t_idx[t])
       /\ \A t \in Threads :
             (/\ pc[t] \in {"reserved", "wait_free"}
              /\ cells[t_arr[t]][t_idx[t]].wait_object = NULL
              /\ pc'[t] # pc[t] \/ err' # err)
             => /\ err' = FreeCellAssertion
                /\ pc'[t] = pc[t]
                /\ n_reserved' = n_reserved
       /\ (err = "none" /\ err' = FreeCellAssertion)
             => /\ n_reserved' = n_reserved
                /\ \E t \in Threads : /\ pc[t] \in {"reserved", "wait_free"}
                                       /\ cells[t_arr[t]][t_idx[t]].wait_object = NULL]_vars

\* The thread reserved a cell and freed it (the cell still carries its thread
\* id and n_reserved is back at 0), then called sync_array_free_cell with the
\* same index again: the assertion.
C29_Witness ==
    /\ err = FreeCellAssertion
    /\ pc[ThreadA] = "reserved"
    /\ cells[t_arr[ThreadA]][t_idx[ThreadA]].thread = ThreadA
    /\ cells[t_arr[ThreadA]][t_idx[ThreadA]].wait_object = NULL
    /\ cells[t_arr[ThreadA]][t_idx[ThreadA]].signal_count = 0
    /\ n_reserved[t_arr[ThreadA]] = 0

\* C30: when sync_array_print_long_waits returns from a call that was not
\* skipped for CHECK TABLE and during which no cell and no clock moved, and
\* some cell of some instance has waited for a positive time, *waiter and
\* *sema are the thread and the semaphore of a cell whose wait time is the
\* greatest among the waiting cells of all instances.
AllWaitingCells ==
    {c \in Arrs \X Cells : c[2] \in long_wait_cells(c[1]) /\ Age(c[1], c[2]) > 0}

C30_OutParametersNameLongestWait ==
    [][(/\ long_waits.i = sync_array_size - 1
        /\ long_waits'.i = 0
        /\ ~(srv_fatal_semaphore_wait_threshold > SRV_SEMAPHORE_WAIT_EXTENSION)
        /\ AllWaitingCells # {})
       => \E c \in AllWaitingCells :
             /\ \A d \in AllWaitingCells : Age(d[1], d[2]) <= Age(c[1], c[2])
             /\ long_waits'.waiter = cells[c[1]][c[2]].thread
             /\ long_waits'.sema = cells[c[1]][c[2]].wait_object]_vars

\* C31 as stated: sync_array_init(n_threads) creates srv_sync_array_size
\* instances, each with n_threads / srv_sync_array_size + 1 cells, every cell
\* free and n_reserved = 0.
Created(cells_of(_, _)) ==
    sync_wait_array # NoWaitArray =>
        LET n == sync_wait_array.n_threads
            size == sync_wait_array.sync_array_size
        IN  /\ DOMAIN sync_wait_array.array = 0 .. (size - 1)
            /\ \A a \in 0 .. (size - 1) :
                  LET arr == sync_wait_array.array[a]
                  IN  /\ arr.n_cells = cells_of(n, size)
                      /\ DOMAIN arr.array = 0 .. (arr.n_cells - 1)
                      /\ \A i \in DOMAIN arr.array :
                            /\ arr.array[i].wait_object = NULL
                            /\ ~arr.array[i].waiting
                      /\ arr.n_reserved = 0

QuotientPlusOne(n, size) == (n \div size) + 1
OnePlusQuotientOfPredecessor(n, size) == 1 + ((n - 1) \div size)

C31_CellsQuotientPlusOne == Created(QuotientPlusOne)

\* C31 amended: each instance has 1 + (n_threads - 1) / srv_sync_array_size
\* cells (integer division), every cell free and n_reserved = 0.
C31_CellsOnePlusQuotientOfPredecessor == Created(OnePlusQuotientOfPredecessor)

\* C31 witness: sync_array_init(4) with two instances made two cells each,
\* where the quotient plus one is three.
C31_Witness ==
    /\ sync_wait_array # NoWaitArray
    /\ sync_wait_array.n_threads = 4
    /\ sync_wait_array.sync_array_size = 2
    /\ sync_wait_array.array[0].n_cells = 2
    /\ sync_wait_array.array[1].n_cells = 2

\* C32: the diagnostic walk along the chain of writer threads terminates
\* for every array content: a call of sync_array_print_innodb, and the second
\* loop of sync_array_print_long_waits_low, that has started returns.
C32_WriterWalkTerminates == (walk # NoWalk) ~> (walk = NoWalk)

\* C33: while the io_fix of a block is BUF_IO_READ its latch is held
\* exclusively for the I/O and by no user thread: no thread has the block
\* with a shared or an exclusive latch among the pages it got.
UserLatched(d) ==
    {t \in Threads : \E l \in {RW_S_LATCH, RW_X_LATCH} : <<d, l>> \in mtr[t]}

C33_ReadingBlockLatchedForIo ==
    \A d \in Blocks :
        blocks[d].io_fix = BUF_IO_READ
            => /\ blocks[d].lock_x = IoHolder
               /\ blocks[d].lock_s = {}
               /\ UserLatched(d) = {}

\* C33 witness: a page that is in the page hash while it is read in, and
\* another thread that holds a latch on another page.
C33_Witness ==
    \E d \in Blocks, t \in Threads :
        /\ blocks[d].io_fix = BUF_IO_READ
        /\ page_hash[blocks[d].page] = d
        /\ bpc[t].op = "read" /\ bpc[t].d = d
        /\ \E u \in Threads \ {t}, e \in Blocks \ {d} : u \in UserLatched(e)

\* C34: the hazard pointer of the flush list scan never refers to a block
\* that has left the flush list, so the batch can go on from it whenever it
\* takes the flush list mutex again.
C34_HazardPointerInList ==
    flush_batch.hp # 0 => flush_batch.hp \in ListSet(flush_list)

\* C34 witness: the write of a block has completed and the block has left
\* the flush list, under the mutex, while a batch has its pointer on a block
\* that was dirtied later and is still listed.
C34_Witness ==
    /\ io_pc # 0
    /\ io_pc \notin ListSet(flush_list)
    /\ flush_list_mutex = IoHolder
    /\ flush_batch.hp \in ListSet(flush_list)
    /\ blocks[flush_batch.hp].oldest_modification
           > blocks[io_pc].oldest_modification

\* The vio calls of a handshake: auth() has returned CR_OK only after a
\* successful write_packet of NONCE_BYTES followed by a read_packet of
\* CRYPTO_BYTES, for an auth string of 43 characters that decodes to a key;
\* with an auth string of another length it makes no vio call and returns
\* CR_AUTH_USER_CREDENTIALS; do_auth writes only as its second call, after a
\* read_packet of NONCE_BYTES.
AuthCallsInOrder ==
    /\ handshake.sret = "CR_OK" =>
         /\ handshake.auth_string.len = 43
         /\ handshake.auth_string.pk # 0
         /\ Len(handshake.slog) = 2
         /\ handshake.slog[1] = [call |-> "write_packet", len |-> NONCE_BYTES,
                                 failed |-> FALSE]
         /\ handshake.slog[2] = [call |-> "read_packet", len |-> CRYPTO_BYTES,
                                 failed |-> FALSE]
    /\ (handshake.spc = "done" /\ handshake.auth_string.len # 43) =>
         /\ handshake.sret = "CR_AUTH_USER_CREDENTIALS"
         /\ handshake.slog = <<>>
    /\ (handshake.spc # "done" /\ handshake.auth_string.len # 43) =>
         handshake.slog = <<>>
    /\ \A k \in 1 .. Len(handshake.clog) :
         handshake.clog[k].call = "write_packet" =>
             /\ k = 2
             /\ handshake.clog[1] = [call |-> "read_packet",
                                     len |-> NONCE_BYTES, failed |-> FALSE]

\* The step in which auth() returns CR_OK reads a reply that was signed over
\* the nonce auth() sent, with the key whose public key the auth string holds.
AcceptedReplySignsTheNonce ==
    (handshake.sret # "CR_OK" /\ handshake'.sret = "CR_OK") =>
          /\ handshake.to_server.len = CRYPTO_BYTES
          /\ handshake.to_server.body.msg = handshake.nonce
          /\ handshake.to_server.body.key = handshake.auth_string.pk
          /\ handshake.to_client \in {NoPacket, nonce_packet(handshake.nonce)}

\* C35: auth() returns CR_OK only if, in this order, it sent a nonce of
\* NONCE_BYTES, received a reply of exactly CRYPTO_BYTES, and that reply is
\* the signature of the nonce it sent under the public key decoded from the
\* 43-character auth string; an auth string of any other length yields
\* CR_AUTH_USER_CREDENTIALS before any packet is sent; do_auth sends its
\* signature only after reading a nonce of exactly NONCE_BYTES.
C35_AuthOkOnlyAfterVerifiedReply ==
    /\ []AuthCallsInOrder
    /\ [][AcceptedReplySignsTheNonce]_vars

\* C35: auth() has returned CR_OK to a client whose do_auth read the nonce
\* and sent its signature.
C35_Witness ==
    /\ handshake.sret = "CR_OK"
    /\ handshake.cret = "CR_OK"
    /\ Len(handshake.clog) = 2

\* C36: every call of sync_array_reserve_cell returns with the array mutex
\* released, on the success path and on the NoCell path alike: a thread that
\* has come back from the call, with a cell or with false, does not own the
\* mutex of the instance it called it on.
C36_ReserveReturnsWithMutexReleased ==
    \A t \in Threads :
        pc[t] \in {"reserved", "nocell"} => os_mutex[t_arr[t]] # t

\* Thread t has a reservation in instance a: sync_array_reserve_cell has
\* given it a cell there that it has not freed.
HasReservation(t, a) ==
    /\ t_arr[t] = a
    /\ pc[t] \notin {"idle", "reserve", "nocell"}

\* C37: whenever a caller can take the array mutex, sync_array_find_thread(arr,
\* t) returns a cell exactly when t has a reservation in arr, and the cell it
\* returns is the one t reserved: a reserved cell carries the id of the
\* thread that made the reservation.
C37_FindThreadFindsTheReserver ==
    \A a \in Arrs, t \in Threads :
        os_mutex[a] = NoThread =>
            LET i == sync_array_find_thread(a, t)
            IN  /\ (i # -1) <=> HasReservation(t, a)
                /\ (i # -1) => t_idx[t] = i

\* C38: sync_array_detect_deadlock terminates with recursion depth below 100
\* in every reachable state of the wait array and the latches: no search
\* started by sync_array_wait_event comes to a call whose ut_ad(depth < 100)
\* fails.
C38_DetectDeadlockDepthBelow100 ==
    err # "detect_deadlock: ut_ad(depth < 100)"

\* C39: with the arrays that sync_array_init(n_threads) created and at most
\* n_threads threads, each with at most one cell, sync_array_reserve_cell on
\* the instance that sync_array_get returned never returns false.
C39_ProvisionedReserveNeverFails ==
    /\ sync_wait_array = sync_array_init_result(n_threads, srv_sync_array_size)
    /\ \A a \in Arrs : Cells = 0 .. sync_wait_array.array[a].n_cells - 1
    /\ Cardinality(Threads) <= n_threads
    => \A t \in Threads : pc[t] # "nocell"

\* The reserved cells of instance a.
ReservedCells(a) == {i \in Cells : cells[a][i].wait_object # NULL}

\* C40: whenever the array mutex can be taken, the count-driven scans of
\* sync_array_wake_threads_if_sema_free_low and sync_array_print_info_low
\* never call sync_array_get_nth_cell with an index that fails its assertion
\* n < n_cells, and they visit each reserved cell exactly once: the print
\* scan prints the reserved cells once each in ascending order, the wake
\* scan sets the event of exactly the reserved cells that can wake up.
C40_CountDrivenScansStayInArray ==
    \A a \in Arrs :
        os_mutex[a] = NoThread =>
            LET wake == wake_scan(a, 0, 0, {})
                info == sync_array_print_info_low(a)
            IN  /\ ~wake.overrun
                /\ ~info.overrun
                /\ wake.woken = {i \in ReservedCells(a) :
                                    sync_arr_cell_can_wake_up(cells[a][i])}
                /\ Len(info.printed) = Cardinality(ReservedCells(a))
                /\ {info.printed[k] : k \in 1 .. Len(info.printed)}
                       = ReservedCells(a)
                /\ \A k \in 1 .. Len(info.printed) - 1 :
                       info.printed[k] < info.printed[k + 1]

\* C40: the sweep has set the event of a reserved cell that lies behind a
\* free cell, in an instance whose mutex is free.
C40_Witness ==
    \E a \in Arrs :
        /\ os_mutex[a] = NoThread
        /\ cells[a][0].wait_object = NULL
        /\ cells[a][1].wait_object # NULL
        /\ cells[a][1].waiting
        /\ 1 \in wake_scan(a, 0, 0, {}).woken
        /\ events[sync_cell_get_event(cells[a][1])].is_set
        /\ sync_array_print_info_low(a).printed = <<1>>

====
